---------------------------- MODULE Spec2Model ----------------------------
(***************************************************************************)
(* Model of the exam-preparation API (src/app, src/exam_api/app): the      *)
(* Cognito token verifier, the per-request SQLAlchemy session, and the     *)
(* handlers POST /user-answers, GET /user-stats, GET /weak-questions,      *)
(* GET /frequent-questions, POST /frequent-questions, GET /questions/{id}; *)
(* and of the ingestion scripts (src/scripts, src/src): their directory    *)
(* mode and exit codes, the retry loops around the provider, the fallback  *)
(* embedding, the image analysers and the two importers.                   *)
(*                                                                         *)
(* The database is the external store: it holds the committed tables; a    *)
(* session's flushed rows stay in that session (sess[s].pending) until its *)
(* commit and are dropped by close.  Requests run in slots that may        *)
(* interleave at every database round trip (several worker processes).     *)
(* Scores are kept in hundredths (6154 is 61.54), weights in twentieths.   *)
(***************************************************************************)
EXTENDS Integers, Sequences, FiniteSets, TLC

----------------------------------------------------------------------------
(* Bounds of the model *)

\* the clock runs from 1 to MaxTime
MaxTime == 2
\* answer submissions begun over a run
MaxSubmissions == 2
\* answer items submitted over a run, over all batches
MaxAnswerItems == 2
\* frequent-question batches begun over a run
MaxFqBatches == 2
\* frequent-question items submitted over a run, over all batches
MaxFqItems == 3
\* answer submissions, and answer items, of a run that ranks frequent questions
MaxFreqAnswers == 1
\* frequent-question batches of a run that ranks frequent questions
MaxFreqBatches == 1
\* answer items of a run that ranks weak questions
MaxWeakItems == 5
\* answers of a batch whose score is computed on its own
MaxScoreItems == 3
\* answer submissions of a run that builds a snapshot history
MaxHistory == 3
\* files a script finds in its input directory
MaxFiles == 3
\* calls of import_embedding on one connection, or of import_markdown
MaxImports == 3
\* the attempt cap (retry_count) a retry loop is run with
MaxRetryCount == 3

----------------------------------------------------------------------------
(* Input domains *)

Slots == {"r1", "r2"}
Users == {"u1", "u2"}
ExamTypes == {"e1", "e2"}
Kids == {"k1", "k2", "k3"}
\* the key sets the identity provider publishes over time; k3 is never published
KeySets == {{"k1"}, {"k1", "k2"}, {"k2"}}
\* question ids requests name: 1 to 6 are rows of the questions table, 9 is not
QuestionIdInputs == {1, 2, 3, 4, 5, 6, 9}
AnswerIds == {1}
\* final_score values (tenths): the request model accepts 0.0 .. 1.0
FqScores == {3, 7}
\* limit query parameter: the routes accept 1 .. 50
Limits == {1, 2}

\* payload.get("exp", 0): an absent exp claim reads as 0
NoExp == 0

\* a bearer token: its header's kid ("nokid": no readable header), whether the
\* signature verifies under that key, its aud/iss, and its claims
Token ==
    [kid : Kids \cup {"nokid"}, sig : BOOLEAN, aud : BOOLEAN, iss : BOOLEAN,
     exp : {NoExp, 1, MaxTime + 1},
     sub : Users \cup {"absent"},
     username : {"absent", "username", "cognito:username"},
     email : BOOLEAN,
     groups : {"absent", "student", "admin"}]

\* a token that is valid at every modelled time and carries every claim
GoodToken(u, g) ==
    [kid |-> "k1", sig |-> TRUE, aud |-> TRUE, iss |-> TRUE, exp |-> MaxTime + 1,
     sub |-> u, username |-> "username", email |-> TRUE, groups |-> g]

\* the tokens the API specifications draw from: every user as student and
\* as admin, and one token without an exp claim
ApiTokens ==
    {GoodToken(u, g) : u \in Users, g \in {"student", "admin"}}
        \cup {[GoodToken("u1", "student") EXCEPT !.exp = NoExp]}

----------------------------------------------------------------------------
(* Token verification: src/app/utils/auth.py *)

\* _get_public_keys: the published key set, or a failure (HTTPException 500)
\* fetched: [ok |-> BOOLEAN, keys |-> set of kids]
FetchOutcomes(published) ==
    {[ok |-> TRUE, keys |-> published], [ok |-> FALSE, keys |-> {}]}

\* the key set is fetched at every verification
KeysAlwaysRefreshed(t, cache, fetched) ==
    IF t.kid = "nokid" THEN cache
    ELSE IF fetched.ok THEN fetched.keys ELSE cache

\* the key cache after verify_token looked kid up: one refresh on a miss,
\* the cache replaced by what was fetched; a failed fetch leaves it alone
KeysAfterLookup(t, cache, fetched) ==
    IF t.kid = "nokid" \/ t.kid \in cache THEN cache
    ELSE IF fetched.ok THEN fetched.keys ELSE cache

\* whether verify_token fetched the key set
Fetches(t, cache) == t.kid # "nokid" /\ t.kid \notin cache

\* jwt.decode told to verify nothing: it fails on an unreadable token only
DecodeStatusUnverified(t, time) == IF t.kid = "nokid" THEN 401 ELSE 0

\* jwt.decode(token, key, algorithms, audience, issuer): 0 when it returns
\* the payload, 401 for the JWTError it raises (signature, an exp claim in
\* the past, audience, issuer)
DecodeStatus(t, time) ==
    IF ~t.sig THEN 401
    ELSE IF t.exp # NoExp /\ t.exp < time THEN 401
    ELSE IF ~t.aud \/ ~t.iss THEN 401
    ELSE 0

\* verify_token: 0 when the payload is returned, else the HTTP status raised
VerifyTokenStatus(t, cache, fetched, time) ==
    IF t.kid = "nokid" THEN 401                     \* get_unverified_header / headers["kid"]
    \* the refresh raises HTTPException(500), which except Exception turns into 401
    ELSE IF t.kid \notin cache /\ ~fetched.ok THEN 401
    ELSE IF t.kid \notin KeysAfterLookup(t, cache, fetched) THEN 401
    ELSE IF DecodeStatus(t, time) # 0 THEN 401
    ELSE IF t.exp < time THEN 401                   \* payload.get("exp", 0) < current_time
    ELSE 0

NoUser == [user_id |-> "none", username |-> "none", email |-> FALSE, groups |-> {}]

\* UserInfo(...) validates: user_id: str and username: str are required
UserInfoValid(t) == t.sub # "absent" /\ t.username # "absent"

\* UserInfo built from the payload
UserInfoOf(t) ==
    [user_id |-> t.sub, username |-> t.username, email |-> t.email,
     groups |-> IF t.groups = "absent" THEN {} ELSE {t.groups}]

\* get_current_user: [status |-> 0, user |-> UserInfo] or [status |-> 401]
GetCurrentUser(t, cache, fetched, time) ==
    LET st == VerifyTokenStatus(t, cache, fetched, time) IN
    IF st # 0 THEN [status |-> 401, user |-> NoUser]
    ELSE IF ~UserInfoValid(t) THEN [status |-> 401, user |-> NoUser]
    ELSE [status |-> 0, user |-> UserInfoOf(t)]

\* verify_user_id: TRUE when the check passes, else 403 is raised
VerifyUserIdSkipped(provided_user_id, current_user) == TRUE

VerifyUserId(provided_user_id, current_user) ==
    provided_user_id = current_user.user_id

----------------------------------------------------------------------------
(* The questions table: src/app/models/question.py.  No API operation      *)
(* writes it.                                                              *)

QuestionIds == {1, 2, 3, 4, 5, 6}

\* one row for each difficulty and is_mandatory; two HIGH rows in e1, none in e2
Question ==
    [q \in QuestionIds |->
        [id |-> q,
         difficulty |-> <<"HIGH", "LOW", "HIGH", "LOW", "MID", "MID">>[q],
         is_mandatory |-> <<TRUE, FALSE, FALSE, TRUE, TRUE, FALSE>>[q],
         exam_type |-> <<"e1", "e2", "e1", "e1", "e2", "e1">>[q]]]

\* an item of an answer batch (UserAnswerItem)
Items == [question_id : QuestionIdInputs, answer_id : AnswerIds, status : BOOLEAN]

\* an item of a frequent-question batch (FrequentQuestionCreate)
FqItems == [question_id : QuestionIdInputs, final_score : FqScores, exam_type : ExamTypes]

----------------------------------------------------------------------------
(* Scoring: UserAnswerService._calculate_score *)

\* round(x, 2) of x = n / d, in hundredths of hundredths: n / d rounded to
\* the nearest integer, ties to even
RoundHalfEven(n, d) ==
    LET q == n \div d
        r == n % d
    IN  IF 2 * r < d THEN q
        ELSE IF 2 * r > d THEN q + 1
        ELSE IF q % 2 = 0 THEN q ELSE q + 1

\* difficulty_weights.get(difficulty, 1.0), times mandatory_weight 1.5 for a
\* mandatory question; in twentieths
DiffWeight(info) ==
    LET w == CASE info.difficulty = "LOW" -> 16
               [] info.difficulty = "MID" -> 20
               [] info.difficulty = "HIGH" -> 24
               [] OTHER -> 20
    IN  IF info.is_mandatory THEN (w * 3) \div 2 ELSE w

\* question_info: the rows Question.id.in_(question_ids) finds
QuestionInfo(answers) ==
    {q \in QuestionIds : \E i \in 1..Len(answers) : answers[i].question_id = q}

\* whether the scoring loop counts an answer
ScoredAll(answer, question_info) == TRUE

Scored(answer, question_info) == answer.question_id \in question_info

\* the weighted score credits the wrong answers
EarnsWhenWrong(answer) == ~answer.status

\* if answer.status: weighted_score += 1.0 * diff_weight
Earns(answer) == answer.status

RECURSIVE WeightSum(_, _, _)
\* the loop over answers: total_weight (onlyCorrect = FALSE) or
\* weighted_score (onlyCorrect = TRUE)
WeightSum(answers, question_info, onlyCorrect) ==
    IF answers = <<>> THEN 0
    ELSE LET a == Head(answers)
             w == IF ~Scored(a, question_info) THEN 0
                  ELSE IF onlyCorrect /\ ~Earns(a) THEN 0
                  ELSE IF a.question_id \in QuestionIds
                       THEN DiffWeight(Question[a.question_id])
                       ELSE 20
         IN  w + WeightSum(Tail(answers), question_info, onlyCorrect)

\* _calculate_score, in hundredths (5000 is 50.0)
CalculateScore(correct_count, wrong_count, question_info, answers) ==
    IF answers = <<>> THEN 0
    ELSE LET total_questions == correct_count + wrong_count
             weighted_score == WeightSum(answers, question_info, TRUE)
             total_weight == WeightSum(answers, question_info, FALSE)
             \* 100 * (0.4 * base_score) and 100 * (0.6 * weighted_percentage)
             \* over the common denominator
             bn == IF total_questions > 0 THEN 4000 * correct_count ELSE 0
             bd == IF total_questions > 0 THEN total_questions ELSE 1
             wn == IF total_weight > 0 THEN 6000 * weighted_score ELSE 0
             wd == IF total_weight > 0 THEN total_weight ELSE 1
         IN  RoundHalfEven(bn * wd + wn * bd, bd * wd)

----------------------------------------------------------------------------
(* State *)

VARIABLES
    keys,               \* cognito_verifier.keys: the cached key ids
    jwks,               \* the key ids the identity provider publishes
    now,                \* time.time()
    userAnswers,        \* committed rows of user_answers, in commit order
    userStats,          \* committed rows of user_stats, in commit order
    frequentQuestions,  \* committed rows of frequent_questions, in insert order
    lastAnswerId,       \* the user_answers id sequence
    nsub,               \* answer submissions begun (names a submission)
    nitems,             \* answer items read so far, over all submissions
    nfq,                \* frequent-question batches begun (names a batch)
    nfqitems,           \* frequent-question items read so far, over all batches
    req,                \* per slot: the request in progress
    sess,               \* per slot: the request's database session
    resp,               \* per slot: the response sent
    cap,                \* the budgets of the run, fixed by the initial state
    job,                \* the ingestion script in progress
    calc                \* a score computation: its batch and its results

vars == <<keys, jwks, now, userAnswers, userStats, frequentQuestions,
          lastAnswerId, nsub, nitems, nfq, nfqitems, req, sess, resp, cap, job, calc>>

\* the counters that bound a run
counters == <<nsub, nitems, nfq, nfqitems>>

tables == <<userAnswers, userStats, frequentQuestions, lastAnswerId>>

\* the state of the API
api == <<keys, jwks, now, tables, counters, req, sess, resp>>

\* what no API step changes
apart == <<cap, job, calc>>

\* the budgets of a run of the API
ApiBudget ==
    [submissions |-> MaxSubmissions, items |-> MaxAnswerItems,
     batches |-> MaxFqBatches, fqitems |-> MaxFqItems]

\* no script is running
NoJob ==
    [step |-> "none", pc |-> "none", files |-> 0, results |-> <<>>, next |-> 0,
     success |-> 0, failure |-> 0, reported |-> FALSE,
     path |-> "none", key |-> FALSE, code |-> 0 - 1]

\* no score is being computed
NoCalc == [pc |-> "none", answers |-> <<>>, flip |-> 0, score |-> 0, flipped |-> 0]

NoStat == [id |-> 0, user_id |-> "none", total_score |-> 0, correct_count |-> 0,
           wrong_count |-> 0, exam_type |-> "none", created_at |-> 0,
           sub |-> 0, subject |-> "none"]

\* no token recorded
NoToken ==
    [kid |-> "nokid", sig |-> FALSE, aud |-> FALSE, iss |-> FALSE, exp |-> NoExp,
     sub |-> "absent", username |-> "absent", email |-> FALSE, groups |-> "absent"]

NoFqItem == [question_id |-> 0, final_score |-> 0, exam_type |-> "none"]

IdleReq ==
    [pc |-> "idle", op |-> "none", subject |-> "none", user_id |-> "none",
     exam_type |-> "none", sub |-> 0, items |-> <<>>, ids |-> <<>>,
     correct |-> 0, wrong |-> 0, before |-> NoStat, max |-> NoStat,
     fqitems |-> <<>>, cur |-> NoFqItem, found |-> 0, count |-> 0,
     failed |-> "none", token |-> NoToken, fetched |-> FALSE,
     groups |-> "absent", limit |-> 0]

\* SessionLocal() not yet called, or closed
NoSession == [open |-> FALSE, used |-> FALSE, pending |-> <<>>]

NoResp == [status |-> 0, ids |-> <<>>, new |-> NoStat, max |-> NoStat,
           before |-> NoStat, list |-> <<>>, count |-> 0]

IdleApi(budget) ==
    /\ cap = budget
    /\ jwks = {"k1"}
    /\ keys = {"k1"}            \* CognitoJWTVerifier.__init__ fetched the key set
    /\ now = 1
    /\ userAnswers = <<>>
    /\ userStats = <<>>
    /\ frequentQuestions = <<>>
    /\ lastAnswerId = 0
    /\ nsub = 0
    /\ nitems = 0
    /\ nfq = 0
    /\ nfqitems = 0
    /\ req = [s \in Slots |-> IdleReq]
    /\ sess = [s \in Slots |-> NoSession]
    /\ resp = [s \in Slots |-> NoResp]

InitApi(budget) ==
    /\ IdleApi(budget)
    /\ job = NoJob
    /\ calc = NoCalc

Init == InitApi(ApiBudget)

----------------------------------------------------------------------------
(* Request plumbing: FastAPI resolves get_current_user, then get_db, then  *)
(* runs the handler; get_db's finally closes the session.                  *)

\* the dependencies of a handler: the caller's identity, or 401 before any
\* session exists
Authenticate(s, t, fetched) ==
    /\ req[s].pc = "idle"
    /\ fetched \in FetchOutcomes(jwks)
    /\ keys' = KeysAfterLookup(t, keys, fetched)

\* the request ends with an error status
Fail(s, op, subject, user_id, status, failed, opened, used) ==
    /\ req' = [req EXCEPT ![s] = [IdleReq EXCEPT !.pc = "done", !.op = op,
                                   !.subject = subject, !.user_id = user_id,
                                   !.failed = failed]]
    /\ sess' = [sess EXCEPT ![s] = [open |-> opened, used |-> used, pending |-> <<>>]]
    /\ resp' = [resp EXCEPT ![s] = [NoResp EXCEPT !.status = status]]

\* the response is sent and the session is left as it is
CloseSkipped(s) ==
    /\ req[s].pc = "done"
    /\ req' = [req EXCEPT ![s] = IdleReq]
    /\ resp' = [resp EXCEPT ![s] = NoResp]
    /\ UNCHANGED <<apart, keys, jwks, now, tables, counters, sess>>

\* get_db, after the response: db.close() drops what the session did not commit
Close(s) ==
    /\ req[s].pc = "done"
    /\ req' = [req EXCEPT ![s] = IdleReq]
    /\ sess' = [sess EXCEPT ![s] = NoSession]
    /\ resp' = [resp EXCEPT ![s] = NoResp]
    /\ UNCHANGED <<apart, keys, jwks, now, tables, counters>>

----------------------------------------------------------------------------
(* Small helpers on sequences *)

Range(seq) == {seq[i] : i \in 1..Len(seq)}

----------------------------------------------------------------------------
(* Orderings the database is free to choose *)

\* every arrangement of the rows of S in which key (a function on S) never
\* increases: what ORDER BY key DESC (or a stable sort of any row order) may
\* return
DescOrders(S, key) ==
    {p \in [1..Cardinality(S) -> S] :
        /\ \A i, j \in 1..Cardinality(S) : i # j => p[i] # p[j]
        /\ \A i \in 1..(Cardinality(S) - 1) : key[p[i]] >= key[p[i + 1]]}

\* seq[:n]
Take(seq, n) == SubSeq(seq, 1, IF n < Len(seq) THEN n ELSE Len(seq))

----------------------------------------------------------------------------
(* POST /user-answers: create_user_answers and                             *)
(* UserAnswerService.save_user_answers                                     *)

\* db.query(UserStat).filter(user_id, exam_type).order_by(desc(created_at)).all():
\* the lists the query may return; rows of one created_at come in any order
StatsOf(stats, u, e) ==
    LET rows == {r \in Range(stats) : r.user_id = u /\ r.exam_type = e}
    IN  DescOrders(rows, [r \in rows |-> r.created_at])

\* max(existing_stats, key=total_score): the first of the rows with the
\* highest score, None (NoStat) for no rows
MaxStat(existing) ==
    IF existing = <<>> THEN NoStat
    ELSE LET best == CHOOSE i \in 1..Len(existing) :
                        /\ \A j \in 1..Len(existing) :
                              existing[j].total_score <= existing[i].total_score
                        /\ \A j \in 1..(i - 1) :
                              existing[j].total_score < existing[i].total_score
         IN  existing[best]

\* existing_stats[0] if existing_stats else None
BeforeStat(existing) == IF existing = <<>> THEN NoStat ELSE Head(existing)

\* the handler up to the item loop: the dependencies, verify_user_id, the
\* two queries (existing stats, questions)
CreateUserAnswers(s, t, fetched, u, e, dbok) ==
    /\ Authenticate(s, t, fetched)
    /\ LET cu == GetCurrentUser(t, keys, fetched, now)
       IN  IF cu.status # 0
           THEN Fail(s, "post_answers", "none", "none", cu.status, "auth", FALSE, FALSE)
                /\ UNCHANGED nsub
           ELSE IF ~VerifyUserId(u, cu.user)
           THEN Fail(s, "post_answers", cu.user.user_id, u, 403, "forbidden", TRUE, FALSE)
                /\ UNCHANGED nsub
           ELSE IF ~dbok
           THEN Fail(s, "post_answers", cu.user.user_id, u, 500, "query", TRUE, TRUE)
                /\ UNCHANGED nsub
           ELSE \E existing \in StatsOf(userStats, u, e) :
                /\ nsub < cap.submissions
                /\ nsub' = nsub + 1
                /\ req' = [req EXCEPT ![s] =
                              [IdleReq EXCEPT !.pc = "items", !.op = "post_answers",
                                              !.subject = cu.user.user_id,
                                              !.user_id = u, !.exam_type = e,
                                              !.sub = nsub + 1,
                                              !.before = BeforeStat(existing),
                                              !.max = MaxStat(existing)]]
                /\ sess' = [sess EXCEPT ![s] =
                              [open |-> TRUE, used |-> TRUE, pending |-> <<>>]]
                /\ UNCHANGED resp
    /\ UNCHANGED <<apart, jwks, now, tables, nitems, nfq, nfqitems>>

\* if item.question_id not in question_info: continue
Accepted(item) == item.question_id \in QuestionInfo(<<item>>)

\* where db.flush() puts the new row: in the session's open transaction
FlushAutocommit(s, row) ==
    /\ userAnswers' = Append(userAnswers, row)
    /\ sess' = sess

Flush(s, row) ==
    /\ sess' = [sess EXCEPT ![s].pending = Append(@, row)]
    /\ userAnswers' = userAnswers

\* one turn of the loop over user_answer_data.questions
AddAnswer(s, item, ok) ==
    /\ req[s].pc = "items"
    /\ nitems < cap.items
    /\ nitems' = nitems + 1
    /\ IF ~Accepted(item)
       THEN /\ ok
            /\ req' = [req EXCEPT ![s].items = Append(@, item)]
            /\ UNCHANGED <<sess, resp, lastAnswerId, userAnswers>>
       ELSE IF ok
               THEN /\ Flush(s, [id |-> lastAnswerId + 1,
                                 user_id |-> req[s].user_id,
                                 question_id |-> item.question_id,
                                 answer_id |-> item.answer_id,
                                 status |-> item.status,
                                 exam_type |-> req[s].exam_type,
                                 created_at |-> now,
                                 sub |-> req[s].sub,
                                 subject |-> req[s].subject])
                    /\ lastAnswerId' = lastAnswerId + 1
                    /\ req' = [req EXCEPT
                                 ![s].items = Append(@, item),
                                 ![s].ids = Append(@, lastAnswerId + 1),
                                 ![s].correct = IF item.status THEN @ + 1 ELSE @,
                                 ![s].wrong = IF item.status THEN @ ELSE @ + 1]
                    /\ UNCHANGED resp
               ELSE \* db.flush() raises: the transaction is rolled back
                    /\ req' = [req EXCEPT ![s].pc = "done", ![s].failed = "flush",
                                          ![s].items = Append(@, item)]
                    /\ sess' = [sess EXCEPT ![s].pending = <<>>]
                    /\ resp' = [resp EXCEPT ![s] = [NoResp EXCEPT !.status = 500]]
                    /\ UNCHANGED <<lastAnswerId, userAnswers>>
    /\ UNCHANGED <<apart, keys, jwks, now, userStats, frequentQuestions, nsub, nfq, nfqitems>>

\* UserStat(...) built after the loop
NewStat(s) ==
    [id |-> Len(userStats) + 1,
     user_id |-> req[s].user_id,
     total_score |-> CalculateScore(req[s].correct, req[s].wrong,
                                    QuestionInfo(req[s].items), req[s].items),
     correct_count |-> req[s].correct,
     wrong_count |-> req[s].wrong,
     exam_type |-> req[s].exam_type,
     created_at |-> now,
     sub |-> req[s].sub,
     subject |-> req[s].subject]

\* the response create_user_answers builds
AnswersResponse(s, new_stat) ==
    [NoResp EXCEPT !.status = 201,
                   !.ids = req[s].ids,
                   !.new = new_stat,
                   !.max = req[s].max,
                   !.before = IF req[s].before # NoStat /\ req[s].before.id # new_stat.id
                              THEN req[s].before ELSE NoStat]

\* db.add(new_stat) left out of the transaction
StatNotAdded(s) == <<>>

\* db.add(new_stat): the stat rows the commit writes with the answer rows
StatAdded(s) == <<NewStat(s)>>

\* after the loop: db.add(new_stat); db.commit(); db.refresh(new_stat).
\* outcome: "ok", "commit" (the commit raises) or "refresh" (the refresh raises)
CommitAnswers(s, outcome) ==
    /\ req[s].pc = "items"
    /\ outcome \in {"ok", "commit", "refresh"}
    /\ IF outcome = "commit"
       THEN /\ UNCHANGED <<userAnswers, userStats>>
            /\ resp' = [resp EXCEPT ![s] = [NoResp EXCEPT !.status = 500]]
       ELSE /\ userAnswers' = userAnswers \o sess[s].pending
            /\ userStats' = userStats \o StatAdded(s)
            /\ resp' = [resp EXCEPT ![s] =
                           IF outcome = "ok" THEN AnswersResponse(s, NewStat(s))
                           ELSE [NoResp EXCEPT !.status = 500]]
    /\ req' = [req EXCEPT ![s].pc = "done",
                          ![s].failed = IF outcome = "ok" THEN "none" ELSE outcome]
    /\ sess' = [sess EXCEPT ![s].pending = <<>>]
    /\ UNCHANGED <<apart, keys, jwks, now, frequentQuestions, lastAnswerId, counters>>

----------------------------------------------------------------------------
(* GET /user-stats/{user_id}: get_user_stats *)

GetUserStats(s, t, fetched, u, e, dbok) ==
    /\ Authenticate(s, t, fetched)
    /\ LET cu == GetCurrentUser(t, keys, fetched, now)
       IN  IF cu.status # 0
           THEN Fail(s, "get_stats", "none", "none", cu.status, "auth", FALSE, FALSE)
           ELSE IF ~VerifyUserId(u, cu.user)
           THEN Fail(s, "get_stats", cu.user.user_id, u, 403, "forbidden", TRUE, FALSE)
           ELSE IF ~dbok
           THEN Fail(s, "get_stats", cu.user.user_id, u, 500, "query", TRUE, TRUE)
           ELSE \E list \in StatsOf(userStats, u, e) :
                /\ req' = [req EXCEPT ![s] =
                              [IdleReq EXCEPT !.pc = "done", !.op = "get_stats",
                                              !.subject = cu.user.user_id,
                                              !.user_id = u, !.exam_type = e]]
                /\ sess' = [sess EXCEPT ![s] =
                              [open |-> TRUE, used |-> TRUE, pending |-> <<>>]]
                /\ resp' = [resp EXCEPT ![s] =
                              [NoResp EXCEPT !.status = 200,
                                             !.list = list]]
    /\ UNCHANGED <<apart, jwks, now, tables, counters>>

----------------------------------------------------------------------------
(* GET /weak-questions: WeakQuestionService.get_weak_question_ids *)

\* .limit(limit * 2)
ShortlistFactor == 2

\* the user's incorrect rows for the exam type
IncorrectRows(answers, u, e) ==
    {i \in 1..Len(answers) :
        answers[i].user_id = u /\ answers[i].exam_type = e /\ ~answers[i].status}

\* func.count(UserAnswer.id) per question_id
IncorrectCount(answers, u, e, q) ==
    Cardinality({i \in IncorrectRows(answers, u, e) : answers[i].question_id = q})

\* group_by(question_id).order_by(desc(incorrect_count)).limit(limit * 2):
\* the sets of question ids the query may return
Shortlists(answers, u, e, limit) ==
    LET cands == {answers[i].question_id : i \in IncorrectRows(answers, u, e)}
        n == IF ShortlistFactor * limit < Cardinality(cands)
             THEN ShortlistFactor * limit ELSE Cardinality(cands)
    IN  {S \in SUBSET cands :
            /\ Cardinality(S) = n
            /\ \A a \in S, b \in cands \ S :
                  IncorrectCount(answers, u, e, a) >= IncorrectCount(answers, u, e, b)}

\* the priority without the mandatory flag
PriorityByDifficulty(q) ==
    CASE Question[q].difficulty = "MID" -> 2
      [] Question[q].difficulty = "HIGH" -> 3
      [] OTHER -> 1

\* priority = difficulty_score * mandatory_score
Priority(q) ==
    LET difficulty_score == CASE Question[q].difficulty = "MID" -> 2
                              [] Question[q].difficulty = "HIGH" -> 3
                              [] OTHER -> 1
        mandatory_score == IF Question[q].is_mandatory THEN 2 ELSE 1
    IN  difficulty_score * mandatory_score

RECURSIVE AscendingIds(_)
\* order_by(Question.id)
AscendingIds(S) ==
    IF S = {} THEN <<>>
    ELSE LET m == CHOOSE x \in S : \A y \in S : x <= y
         IN  <<m>> \o AscendingIds(S \ {m})

\* the fallback without its exam_type filter
DifficultQuestionsAnyExam(e) ==
    {q \in QuestionIds : Question[q].difficulty = "HIGH"}

\* filter(Question.exam_type == exam_type).filter(Question.difficulty == "HIGH")
DifficultQuestions(e) ==
    {q \in QuestionIds : Question[q].exam_type = e /\ Question[q].difficulty = "HIGH"}

\* the lists get_weak_question_ids may return
WeakQuestionIds(answers, u, e, limit) ==
    IF IncorrectRows(answers, u, e) = {}
    THEN {Take(AscendingIds(DifficultQuestions(e)), limit)}
    ELSE {Take(p, limit) :
            p \in UNION {DescOrders(S \cap QuestionIds,
                                    [q \in QuestionIds |-> Priority(q)]) :
                            S \in Shortlists(answers, u, e, limit)}}

GetWeakQuestions(s, t, fetched, u, e, limit, dbok) ==
    /\ Authenticate(s, t, fetched)
    /\ LET cu == GetCurrentUser(t, keys, fetched, now)
       IN  IF cu.status # 0
           THEN Fail(s, "get_weak", "none", "none", cu.status, "auth", FALSE, FALSE)
           ELSE IF ~VerifyUserId(u, cu.user)
           THEN Fail(s, "get_weak", cu.user.user_id, u, 403, "forbidden", TRUE, FALSE)
           ELSE IF ~dbok
           THEN Fail(s, "get_weak", cu.user.user_id, u, 500, "query", TRUE, TRUE)
           ELSE \E ids \in WeakQuestionIds(userAnswers, u, e, limit) :
                /\ req' = [req EXCEPT ![s] =
                              [IdleReq EXCEPT !.pc = "done", !.op = "get_weak",
                                              !.subject = cu.user.user_id,
                                              !.user_id = u, !.exam_type = e,
                                              !.limit = limit]]
                /\ sess' = [sess EXCEPT ![s] =
                              [open |-> TRUE, used |-> TRUE, pending |-> <<>>]]
                /\ resp' = [resp EXCEPT ![s] =
                              [NoResp EXCEPT !.status = 200, !.list = ids]]
    /\ UNCHANGED <<apart, jwks, now, tables, counters>>

----------------------------------------------------------------------------
(* GET /frequent-questions: FrequentQuestionService.get_frequent_question_ids *)

\* .limit(20)
RecentLimit == 20

\* the query of the recent answers left out
RecentQuestionIdsNone(answers, u, e) == {{}}

\* the question ids of the user's most recent RecentLimit answers, by
\* created_at: the sets the query may return
RecentQuestionIds(answers, u, e) ==
    LET mine == {r \in Range(answers) : r.user_id = u /\ r.exam_type = e}
    IN  {{r.question_id : r \in Range(Take(p, RecentLimit))} :
            p \in DescOrders(mine, [r \in mine |-> r.created_at])}

\* the rows the frequent-question query ranks
EligibleFq(fqs, e, recent_question_ids) ==
    {r \in Range(fqs) : r.exam_type = e /\ r.question_id \notin recent_question_ids}

\* order_by(FrequentQuestion.final_score), ascending
FinalScoreAscending(r) == 0 - r.final_score

\* desc(FrequentQuestion.final_score)
FinalScore(r) == r.final_score

\* the lists get_frequent_question_ids may return
FrequentQuestionIds(fqs, answers, u, e, limit, exclude_recent_answers) ==
    UNION {LET rows == EligibleFq(fqs, e, recent)
           IN  {[i \in 1..Len(Take(p, limit)) |-> p[i].question_id] :
                   p \in DescOrders(rows, [r \in rows |-> FinalScore(r)])} :
              recent \in IF exclude_recent_answers
                         THEN RecentQuestionIds(answers, u, e) ELSE {{}}}

GetFrequentQuestions(s, t, fetched, u, e, limit, dbok) ==
    /\ Authenticate(s, t, fetched)
    /\ LET cu == GetCurrentUser(t, keys, fetched, now)
       IN  IF cu.status # 0
           THEN Fail(s, "get_freq", "none", "none", cu.status, "auth", FALSE, FALSE)
           ELSE IF ~VerifyUserId(u, cu.user)
           THEN Fail(s, "get_freq", cu.user.user_id, u, 403, "forbidden", TRUE, FALSE)
           ELSE IF ~dbok
           THEN Fail(s, "get_freq", cu.user.user_id, u, 500, "query", TRUE, TRUE)
           ELSE \E ids \in FrequentQuestionIds(frequentQuestions, userAnswers,
                                               u, e, limit, TRUE) :
                /\ req' = [req EXCEPT ![s] =
                              [IdleReq EXCEPT !.pc = "done", !.op = "get_freq",
                                              !.subject = cu.user.user_id,
                                              !.user_id = u, !.exam_type = e,
                                              !.limit = limit]]
                /\ sess' = [sess EXCEPT ![s] =
                              [open |-> TRUE, used |-> TRUE, pending |-> <<>>]]
                /\ resp' = [resp EXCEPT ![s] =
                              [NoResp EXCEPT !.status = 200, !.list = ids]]
    /\ UNCHANGED <<apart, jwks, now, tables, counters>>

----------------------------------------------------------------------------
(* POST /frequent-questions: create_frequent_questions,                    *)
(* FrequentQuestionService.batch_create_frequent_questions and             *)
(* create_frequent_question                                                *)

\* the admin check left out
IsAdminAlways(current_user) == TRUE

\* "admin" not in current_user.groups raises 403
IsAdmin(current_user) == "admin" \in current_user.groups

\* the handler up to the loop over batch.questions
CreateFrequentQuestions(s, t, fetched) ==
    /\ Authenticate(s, t, fetched)
    /\ LET cu == GetCurrentUser(t, keys, fetched, now)
       IN  IF cu.status # 0
           THEN Fail(s, "post_freq", "none", "none", cu.status, "auth", FALSE, FALSE)
                /\ UNCHANGED nfq
           ELSE IF ~IsAdmin(cu.user)
           THEN /\ req' = [req EXCEPT ![s] =
                              [IdleReq EXCEPT !.pc = "done", !.op = "post_freq",
                                              !.subject = cu.user.user_id,
                                              !.groups = t.groups,
                                              !.failed = "forbidden"]]
                /\ sess' = [sess EXCEPT ![s] =
                              [open |-> TRUE, used |-> FALSE, pending |-> <<>>]]
                /\ resp' = [resp EXCEPT ![s] = [NoResp EXCEPT !.status = 403]]
                /\ UNCHANGED nfq
           ELSE /\ nfq < cap.batches
                /\ nfq' = nfq + 1
                /\ req' = [req EXCEPT ![s] =
                              [IdleReq EXCEPT !.pc = "fq", !.op = "post_freq",
                                              !.subject = cu.user.user_id,
                                              !.groups = t.groups,
                                              !.sub = nfq + 1]]
                /\ sess' = [sess EXCEPT ![s] =
                              [open |-> TRUE, used |-> FALSE, pending |-> <<>>]]
                /\ UNCHANGED resp
    /\ UNCHANGED <<apart, jwks, now, tables, nsub, nitems, nfqitems>>

\* db.query(FrequentQuestion).filter(question_id, exam_type).first(): the id
\* of any matching row, 0 for None
FirstFq(fqs, item) ==
    LET hits == {r.id : r \in {x \in Range(fqs) :
                                  /\ x.question_id = item.question_id
                                  /\ x.exam_type = item.exam_type}}
    IN  IF hits = {} THEN {0} ELSE hits

\* updated_count after an item whose question does not exist
CountAfterSkipCounted(count) == count + 1

CountAfterSkip(count) == count

\* create_frequent_question up to its write: the question look-up (ValueError
\* when absent, which the batch loop skips) and the look-up of the pair
FqLookup(s, item, dbok) ==
    /\ req[s].pc = "fq"
    /\ nfqitems < cap.fqitems
    /\ nfqitems' = nfqitems + 1
    /\ IF ~dbok
       THEN /\ req' = [req EXCEPT ![s].pc = "done", ![s].failed = "query",
                                  ![s].fqitems = Append(@, item)]
            /\ resp' = [resp EXCEPT ![s] = [NoResp EXCEPT !.status = 500]]
       ELSE IF item.question_id \notin QuestionIds
       THEN /\ req' = [req EXCEPT ![s].fqitems = Append(@, item),
                                  ![s].count = CountAfterSkip(@)]
            /\ UNCHANGED resp
       ELSE \E found \in FirstFq(frequentQuestions, item) :
            /\ req' = [req EXCEPT ![s].pc = "fq_write",
                                  ![s].fqitems = Append(@, item),
                                  ![s].cur = item,
                                  ![s].found = found]
            /\ UNCHANGED resp
    /\ sess' = [sess EXCEPT ![s].used = TRUE]
    /\ UNCHANGED <<apart, keys, jwks, now, tables, nsub, nitems, nfq>>

\* the table after the update of row found, or the insert of a new row
\* (found = 0); batch names the request that wrote the row
UpsertRow(fqs, item, found, batch) ==
    IF found # 0
    THEN [i \in 1..Len(fqs) |->
            IF fqs[i].id = found
            THEN [fqs[i] EXCEPT !.final_score = item.final_score, !.batch = batch]
            ELSE fqs[i]]
    ELSE Append(fqs, [id |-> Len(fqs) + 1,
                      question_id |-> item.question_id,
                      final_score |-> item.final_score,
                      exam_type |-> item.exam_type,
                      batch |-> batch])

\* the rest of create_frequent_question: the update or db.add, db.commit(),
\* db.refresh().  outcome: "ok", "commit" (the commit raises) or "refresh"
FqWrite(s, outcome) ==
    /\ req[s].pc = "fq_write"
    /\ outcome \in {"ok", "commit", "refresh"}
    /\ frequentQuestions' =
          IF outcome = "commit" THEN frequentQuestions
          ELSE UpsertRow(frequentQuestions, req[s].cur, req[s].found, req[s].sub)
    /\ IF outcome = "ok"
       THEN /\ req' = [req EXCEPT ![s].pc = "fq", ![s].count = @ + 1,
                                  ![s].cur = NoFqItem, ![s].found = 0]
            /\ UNCHANGED resp
       ELSE /\ req' = [req EXCEPT ![s].pc = "done", ![s].failed = outcome]
            /\ resp' = [resp EXCEPT ![s] = [NoResp EXCEPT !.status = 500]]
    /\ UNCHANGED <<apart, keys, jwks, now, userAnswers, userStats, lastAnswerId,
                   counters, sess>>

\* the loop is over: return updated_count
FqFinish(s) ==
    /\ req[s].pc = "fq"
    /\ req' = [req EXCEPT ![s].pc = "done"]
    /\ resp' = [resp EXCEPT ![s] =
                  [NoResp EXCEPT !.status = 201, !.count = req[s].count]]
    /\ UNCHANGED <<apart, keys, jwks, now, tables, counters, sess>>

----------------------------------------------------------------------------
(* GET /questions/{question_id}: get_question *)

GetQuestion(s, t, fetched, question_id, dbok) ==
    /\ Authenticate(s, t, fetched)
    /\ LET cu == GetCurrentUser(t, keys, fetched, now)
           status == IF cu.status # 0 THEN cu.status
                     ELSE IF ~dbok THEN 500
                     ELSE IF question_id \in QuestionIds THEN 200 ELSE 404
       IN  /\ req' = [req EXCEPT ![s] =
                         [IdleReq EXCEPT !.pc = "done", !.op = "get_question",
                                         !.subject = cu.user.user_id,
                                         !.token = t,
                                         !.fetched = Fetches(t, keys),
                                         !.failed = IF cu.status # 0 THEN "auth"
                                                    ELSE IF ~dbok THEN "query"
                                                    ELSE "none"]]
           /\ sess' = [sess EXCEPT ![s] =
                         [open |-> cu.status = 0, used |-> cu.status = 0,
                          pending |-> <<>>]]
           /\ resp' = [resp EXCEPT ![s] =
                         [NoResp EXCEPT !.status = status,
                                        !.list = IF status = 200
                                                 THEN <<question_id>> ELSE <<>>]]
    /\ UNCHANGED <<apart, jwks, now, tables, counters>>

----------------------------------------------------------------------------
(* The environment: time passes, the identity provider rotates its keys *)

Tick ==
    /\ now < MaxTime
    /\ now' = now + 1
    /\ UNCHANGED <<apart, keys, jwks, tables, counters, req, sess, resp>>

RotateKeys(published) ==
    /\ published \in KeySets
    /\ published # jwks
    /\ jwks' = published
    /\ UNCHANGED <<apart, keys, now, tables, counters, req, sess, resp>>

----------------------------------------------------------------------------
(* Specifications *)

\* token verification alone, over every token, in one slot, for a question
\* of the table and the unknown one
NextAuth ==
    \/ /\ req["r1"].pc = "idle"
       /\ \E t \in Token, fetched \in FetchOutcomes(jwks),
             q \in {1, 9}, dbok \in BOOLEAN :
             GetQuestion("r1", t, fetched, q, dbok)
    \/ Close("r1")
    \/ Tick
    \/ \E published \in KeySets : RotateKeys(published)

SpecAuth == Init /\ [][NextAuth]_vars

\* No response is waiting for its session to be closed.  Close(s) touches
\* only slot s, which no other slot reads, so taking it before any other
\* step loses no table state, no response and no interleaving of the steps
\* that touch the tables.
Quiet == \A r \in Slots : req[r].pc # "done"

\* a new request takes the first free slot
Free(s) ==
    /\ req[s].pc = "idle"
    /\ s = "r1" \/ req["r1"].pc # "idle"

\* the steps of an answer submission in slot s, its items drawn from items
SubmissionSteps(s, items) ==
    \/ \E item \in items, ok \in BOOLEAN : AddAnswer(s, item, ok)
    \/ \E outcome \in {"ok", "commit", "refresh"} : CommitAnswers(s, outcome)

\* the items about question 1 and about the unknown question
FewItems == {i \in Items : i.question_id \in {1, 9}}

\* answer submissions, interleaved
NextAnswers ==
    \E s \in Slots :
        \/ /\ Free(s)
           /\ Quiet
           /\ \E t \in ApiTokens, fetched \in FetchOutcomes(jwks),
                 u \in Users, e \in {"e1"}, dbok \in BOOLEAN :
                 CreateUserAnswers(s, t, fetched, u, e, dbok)
        \/ Quiet /\ SubmissionSteps(s, FewItems)
        \/ Close(s)

SpecAnswers == Init /\ [][NextAnswers]_vars

\* the four endpoints that take a user_id, one request at a time
NextUser ==
    \/ /\ req["r1"].pc = "idle"
       /\ \E t \in ApiTokens, fetched \in FetchOutcomes(jwks),
             u \in Users, e \in {"e1"}, dbok \in BOOLEAN :
             \/ CreateUserAnswers("r1", t, fetched, u, e, dbok)
             \/ GetUserStats("r1", t, fetched, u, e, dbok)
             \/ \E limit \in Limits :
                   \/ GetWeakQuestions("r1", t, fetched, u, e, limit, dbok)
                   \/ GetFrequentQuestions("r1", t, fetched, u, e, limit, dbok)
    \/ SubmissionSteps("r1", FewItems)
    \/ Close("r1")

SpecUser == Init /\ [][NextUser]_vars

\* the admin batch upsert of frequent questions, interleaved
FqSteps(s, items) ==
    \/ \E item \in items, dbok \in BOOLEAN : FqLookup(s, item, dbok)
    \/ \E outcome \in {"ok", "commit", "refresh"} : FqWrite(s, outcome)
    \/ FqFinish(s)

\* the items about question 1, and one about the unknown question
FewFqItems ==
    {i \in FqItems : i.question_id = 1}
        \cup {[question_id |-> 9, final_score |-> 3, exam_type |-> "e1"]}

\* an admin's token, a student's, and one without an exp claim
FqTokens ==
    {GoodToken("u1", "admin"), GoodToken("u2", "student"),
     [GoodToken("u1", "admin") EXCEPT !.exp = NoExp]}

NextFq ==
    \E s \in Slots :
        \/ /\ Free(s)
           /\ Quiet
           /\ \E t \in FqTokens, fetched \in FetchOutcomes(jwks) :
                 CreateFrequentQuestions(s, t, fetched)
        \/ Quiet /\ FqSteps(s, FewFqItems)
        \/ Close(s)

SpecFq == Init /\ [][NextFq]_vars

\* an admin, a student, and a caller whose token carries no groups claim
AdminTokens ==
    {GoodToken("u1", "admin"), GoodToken("u1", "student"),
     [GoodToken("u2", "student") EXCEPT !.groups = "absent"]}

\* the two items about question 1 in e1
AdminFqItems == {i \in FqItems : i.question_id = 1 /\ i.exam_type = "e1"}

\* every endpoint, one request at a time, for callers with and without the
\* admin group
NextAdmin ==
    \/ /\ req["r1"].pc = "idle"
       /\ \E t \in AdminTokens, fetched \in FetchOutcomes(jwks) :
             \/ CreateFrequentQuestions("r1", t, fetched)
             \/ \E u \in {"u1"}, e \in {"e1"}, dbok \in BOOLEAN :
                   \/ CreateUserAnswers("r1", t, fetched, u, e, dbok)
                   \/ GetUserStats("r1", t, fetched, u, e, dbok)
                   \/ GetWeakQuestions("r1", t, fetched, u, e, 1, dbok)
                   \/ GetFrequentQuestions("r1", t, fetched, u, e, 1, dbok)
             \/ \E dbok \in BOOLEAN : GetQuestion("r1", t, fetched, 1, dbok)
    \/ SubmissionSteps("r1", {i \in Items : i.question_id = 1 /\ ~i.status})
    \/ FqSteps("r1", AdminFqItems)
    \/ Close("r1")

SpecAdmin == Init /\ [][NextAdmin]_vars

\* frequent-question items: two questions of e1 that can tie or differ in
\* score, and a row of e2
FreqFqItems ==
    {[question_id |-> 1, final_score |-> 3, exam_type |-> "e1"],
     [question_id |-> 2, final_score |-> 3, exam_type |-> "e1"],
     [question_id |-> 2, final_score |-> 7, exam_type |-> "e1"],
     [question_id |-> 1, final_score |-> 7, exam_type |-> "e2"]}

FreqBudget ==
    [submissions |-> MaxFreqAnswers, items |-> MaxFreqAnswers,
     batches |-> MaxFreqBatches, fqitems |-> MaxFqItems]

\* the ranking of frequent questions after submissions and upserts, one
\* request at a time: u1 (an admin) and u2 answer question 1, u1 in both
\* exam types.  The writes succeed: a failed write leaves its table as it
\* was.
NextFreq ==
    \/ /\ req["r1"].pc = "idle"
       /\ \E t \in {GoodToken("u1", "admin"), GoodToken("u2", "student")},
             fetched \in FetchOutcomes(jwks) :
             \/ CreateFrequentQuestions("r1", t, fetched)
             \/ \E u \in Users, e \in ExamTypes, dbok \in BOOLEAN :
                   \/ /\ u = "u1" \/ e = "e1"
                      /\ CreateUserAnswers("r1", t, fetched, u, e, dbok)
                   \/ \E limit \in Limits :
                         GetFrequentQuestions("r1", t, fetched, u, e, limit, dbok)
    \/ \E item \in {i \in Items : i.question_id = 1 /\ i.status} :
          AddAnswer("r1", item, TRUE)
    \/ CommitAnswers("r1", "ok")
    \/ \E item \in FreqFqItems : FqLookup("r1", item, TRUE)
    \/ FqWrite("r1", "ok")
    \/ FqFinish("r1")
    \/ Close("r1")

SpecFreq == InitApi(FreqBudget) /\ [][NextFreq]_vars

\* as many submissions as there are users
WeakBudget ==
    [submissions |-> Cardinality(Users), items |-> MaxWeakItems,
     batches |-> MaxFqBatches, fqitems |-> MaxFqItems]

\* answer items: wrong answers to three questions of e1 with priorities 6, 3
\* and 2, and a right answer
WeakItems ==
    {i \in Items : i.question_id \in {1, 3, 4} /\ ~i.status}
        \cup {i \in Items : i.question_id = 1 /\ i.status}

\* a batch that lists its questions in ascending order, right answers last
Ascending(items, item) ==
    IF items = <<>> THEN TRUE
    ELSE LET last == items[Len(items)]
         IN  IF last.question_id = item.question_id
             THEN ~last.status \/ item.status
             ELSE last.question_id < item.question_id

\* the ranking of weak questions after submissions, one request at a time:
\* u1 and u2 answer in e1 and ask for e1 and e2.  The queries count rows,
\* whatever their order, so the batches are drawn in ascending order only.
\* The writes succeed: a failed write leaves its table as it was.
NextWeak ==
    \/ /\ req["r1"].pc = "idle"
       /\ \E u \in Users, fetched \in FetchOutcomes(jwks), dbok \in BOOLEAN :
             \/ CreateUserAnswers("r1", GoodToken(u, "student"), fetched, u, "e1", dbok)
             \/ \E e \in ExamTypes, limit \in Limits :
                   GetWeakQuestions("r1", GoodToken(u, "student"), fetched, u, e,
                                    limit, dbok)
    \/ \E item \in WeakItems :
          Ascending(req["r1"].items, item) /\ AddAnswer("r1", item, TRUE)
    \/ CommitAnswers("r1", "ok")
    \/ Close("r1")

SpecWeak == InitApi(WeakBudget) /\ [][NextWeak]_vars

\* wrong answers to two questions of equal priority
TiedItems == {i \in Items : i.question_id \in {4, 6} /\ ~i.status}

\* two frequent questions of equal final_score
TiedFqItems == {i \in FqItems : i.final_score = 3 /\ i.exam_type = "e1"
                                 /\ i.question_id \in {1, 2}}

\* the two ranking queries beside the writes, in two slots.  A query may run
\* at any time, also while a submission or a batch is under way or while
\* the answer to another query has not been sent off; a write step waits
\* until the answers have been sent off, so that no write lies between two
\* answers that are present together.  The writes succeed: a failed write
\* leaves its table as it was.
NextReads ==
    \E s \in Slots :
        \/ /\ Free(s)
           /\ \E fetched \in FetchOutcomes(jwks) :
                 \/ /\ Quiet
                    /\ \/ CreateUserAnswers(s, GoodToken("u1", "admin"), fetched,
                                            "u1", "e1", TRUE)
                       \/ CreateFrequentQuestions(s, GoodToken("u1", "admin"), fetched)
                 \/ \E limit \in Limits :
                       \/ GetWeakQuestions(s, GoodToken("u1", "admin"), fetched,
                                           "u1", "e1", limit, TRUE)
                       \/ GetFrequentQuestions(s, GoodToken("u1", "admin"), fetched,
                                               "u1", "e1", limit, TRUE)
        \/ /\ Quiet
           /\ \/ \E item \in TiedItems : AddAnswer(s, item, TRUE)
              \/ CommitAnswers(s, "ok")
              \/ \E item \in TiedFqItems : FqLookup(s, item, TRUE)
              \/ FqWrite(s, "ok")
              \/ FqFinish(s)
        \/ Close(s)

SpecReads == Init /\ [][NextReads]_vars

HistoryBudget ==
    [submissions |-> MaxHistory, items |-> MaxAnswerItems,
     batches |-> MaxFqBatches, fqitems |-> MaxFqItems]

\* snapshot histories, one request at a time, as the clock advances or
\* stands still between requests: u1 answers question 1 in both exam types,
\* u2 in e1, and each reads a history.  The writes succeed: a failed write
\* leaves its table as it was.
NextHistory ==
    \/ /\ req["r1"].pc = "idle"
       /\ \E u \in Users, e \in ExamTypes, fetched \in FetchOutcomes(jwks) :
             /\ u = "u1" \/ e = "e1"
             /\ \/ CreateUserAnswers("r1", GoodToken(u, "student"), fetched, u, e, TRUE)
                \/ GetUserStats("r1", GoodToken(u, "student"), fetched, u, e, TRUE)
    \/ \E item \in {i \in Items : i.question_id = 1} : AddAnswer("r1", item, TRUE)
    \/ CommitAnswers("r1", "ok")
    \/ Close("r1")
    \/ req["r1"].pc = "idle" /\ Tick

SpecHistory == InitApi(HistoryBudget) /\ [][NextHistory]_vars

PoolsBudget ==
    [submissions |-> MaxFreqAnswers, items |-> MaxAnswerItems,
     batches |-> MaxFreqBatches, fqitems |-> MaxFqItems]

\* rows about question 1, of e1, and question 2, of e2, both sent as e1
PoolsFqItems ==
    {[question_id |-> 1, final_score |-> 3, exam_type |-> "e1"],
     [question_id |-> 2, final_score |-> 7, exam_type |-> "e1"]}

\* the two rankings after a submission and an upsert that name e1 for
\* questions of e1 and of e2, one request at a time, by u1, an admin.  The
\* writes succeed: a failed write leaves its table as it was.
NextPools ==
    \/ /\ req["r1"].pc = "idle"
       /\ \E fetched \in FetchOutcomes(jwks) :
             \/ CreateFrequentQuestions("r1", GoodToken("u1", "admin"), fetched)
             \/ CreateUserAnswers("r1", GoodToken("u1", "admin"), fetched,
                                  "u1", "e1", TRUE)
             \/ \E e \in ExamTypes, limit \in Limits :
                   \/ GetWeakQuestions("r1", GoodToken("u1", "admin"), fetched,
                                       "u1", e, limit, TRUE)
                   \/ GetFrequentQuestions("r1", GoodToken("u1", "admin"), fetched,
                                           "u1", e, limit, TRUE)
    \/ \E item \in {i \in Items : i.question_id \in {1, 2} /\ ~i.status} :
          AddAnswer("r1", item, TRUE)
    \/ CommitAnswers("r1", "ok")
    \/ \E item \in PoolsFqItems : FqLookup("r1", item, TRUE)
    \/ FqWrite("r1", "ok")
    \/ FqFinish("r1")
    \/ Close("r1")

SpecPools == InitApi(PoolsBudget) /\ [][NextPools]_vars

SessionBudget ==
    [submissions |-> Cardinality(Slots), items |-> MaxAnswerItems,
     batches |-> MaxFqBatches, fqitems |-> MaxFqItems]

\* the callers of a run about sessions: u1, and a token whose signature
\* does not verify
SessionTokens ==
    {GoodToken("u1", "student"), [GoodToken("u1", "student") EXCEPT !.sig = FALSE]}

\* requests in two slots, every step of one free to fall between the steps
\* of the other: a submission returns, or is refused (401 before a session
\* exists, 403), or fails on the database (500); a question is read
NextSessions ==
    \E s \in Slots :
        \/ /\ Free(s)
           /\ \E t \in SessionTokens, fetched \in FetchOutcomes(jwks), dbok \in BOOLEAN :
                 \/ \E u \in Users : CreateUserAnswers(s, t, fetched, u, "e1", dbok)
                 \/ GetQuestion(s, t, fetched, 1, dbok)
        \/ SubmissionSteps(s, {i \in FewItems : i.question_id = 1 /\ i.status})
        \/ Close(s)

\* the server runs every handler it has started to its end, and then the
\* rest of get_db
SessionsFairness ==
    \A s \in Slots :
       /\ WF_vars(SubmissionSteps(s, {i \in FewItems : i.question_id = 1 /\ i.status}))
       /\ WF_vars(Close(s))

SpecSessions == InitApi(SessionBudget) /\ [][NextSessions]_vars /\ SessionsFairness

----------------------------------------------------------------------------
(* The ingestion scripts in directory mode: OCREngine.process              *)
(* (src/scripts/ocr_engine.py), process_directory                          *)
(* (src/src/generate_embedding.py) and EmbeddingImporter.import_embeddings *)
(* (src/src/embed_importer.py)                                             *)

Steps == {"ocr", "embed", "import"}

\* a script starts on a directory in which it finds n files
StartJob(step, n) ==
    [NoJob EXCEPT !.step = step, !.pc = "run", !.files = n,
                  !.results = [f \in 1..n |-> "pending"]]

\* min(max_workers, 2): the workers of the embedding step's pool
EffectiveWorkers == 2

\* OCREngine.process, one turn of its loop over sorted(image_files):
\* process_single_image returns the text, or raises, which ends process()
\* and, in main, the script (return 1)
OcrFile(ok) ==
    /\ job.step = "ocr"
    /\ job.pc = "run"
    /\ job.next < job.files
    /\ job' = IF ok
              THEN [job EXCEPT !.next = @ + 1, !.success = @ + 1,
                               !.results[job.next + 1] = "ok"]
              ELSE [job EXCEPT !.pc = "aborted", !.results[job.next + 1] = "failed"]
    /\ UNCHANGED <<api, cap, calc>>

\* return results: main logs the number of files generated
OcrReturn ==
    /\ job.step = "ocr"
    /\ job.pc = "run"
    /\ job.next = job.files
    /\ job' = [job EXCEPT !.pc = "done", !.reported = TRUE]
    /\ UNCHANGED <<api, cap, calc>>

\* a worker of the pool runs process_file on file f, which returns True or
\* False (it catches what it raises); the pool starts the files in order
EmbedWork(f, ok) ==
    /\ job.step = "embed"
    /\ job.pc = "run"
    /\ f \in 1..job.files
    /\ job.results[f] = "pending"
    /\ Cardinality({g \in 1..(f - 1) : job.results[g] = "pending"}) < EffectiveWorkers
    /\ job' = [job EXCEPT !.results[f] = IF ok THEN "ok" ELSE "failed"]
    /\ UNCHANGED <<api, cap, calc>>

\* process_directory, one turn of the loop over futures: future.result()
EmbedCollect ==
    /\ job.step = "embed"
    /\ job.pc = "run"
    /\ job.next < job.files
    /\ job.results[job.next + 1] # "pending"
    /\ job' = [job EXCEPT
                 !.next = @ + 1,
                 !.success = IF job.results[job.next + 1] = "ok" THEN @ + 1 ELSE @,
                 !.failure = IF job.results[job.next + 1] = "ok" THEN @ ELSE @ + 1]
    /\ UNCHANGED <<api, cap, calc>>

\* the loop is over (or no file was found): the tally is logged and returned
EmbedReturn ==
    /\ job.step = "embed"
    /\ job.pc = "run"
    /\ job.next = job.files
    /\ job' = [job EXCEPT !.pc = "done", !.reported = TRUE]
    /\ UNCHANGED <<api, cap, calc>>

\* import_embeddings, one turn of its loop over sorted(embedding_files):
\* import_embedding returns True, or False after the rollback in its except
\* clause, or that rollback raises ("lost": the connection is gone), which
\* import_embeddings re-raises
ImportFile(outcome) ==
    /\ job.step = "import"
    /\ job.pc = "run"
    /\ job.next < job.files
    /\ outcome \in {"ok", "failed", "lost"}
    /\ job' = IF outcome = "lost"
              THEN [job EXCEPT !.pc = "aborted", !.results[job.next + 1] = "failed"]
              ELSE [job EXCEPT
                      !.next = @ + 1,
                      !.results[job.next + 1] = outcome,
                      !.success = IF outcome = "ok" THEN @ + 1 ELSE @,
                      !.failure = IF outcome = "ok" THEN @ ELSE @ + 1]
    /\ UNCHANGED <<api, cap, calc>>

\* the loop is over: the connection is closed and the tally logged
ImportReturn ==
    /\ job.step = "import"
    /\ job.pc = "run"
    /\ job.next = job.files
    /\ job' = [job EXCEPT !.pc = "done", !.reported = TRUE]
    /\ UNCHANGED <<api, cap, calc>>

\* one of the three scripts, started on a directory of up to MaxFiles files
InitIngest ==
    /\ IdleApi(ApiBudget)
    /\ calc = NoCalc
    /\ \E step \in Steps, n \in 0..MaxFiles : job = StartJob(step, n)

NextIngest ==
    \/ \E ok \in BOOLEAN : OcrFile(ok)
    \/ OcrReturn
    \/ \E f \in 1..MaxFiles, ok \in BOOLEAN : EmbedWork(f, ok)
    \/ EmbedCollect
    \/ EmbedReturn
    \/ \E outcome \in {"ok", "failed", "lost"} : ImportFile(outcome)
    \/ ImportReturn

SpecIngest == InitIngest /\ [][NextIngest]_vars

----------------------------------------------------------------------------
(* The ingestion commands: main of src/src/gemini_image_analyzer.py, of    *)
(* src/src/generate_embedding.py and of src/src/embed_importer.py.  A      *)
(* command is given --input, a path that is missing, a file or a           *)
(* directory, and finds its API key or not; job.code is what main returns. *)

Paths == {"missing", "file", "dir"}

\* a command starts: n is the number of files it will find under its input
StartMain(step, path, key, n) ==
    [NoJob EXCEPT !.step = step, !.pc = "main", !.path = path, !.key = key,
                  !.files = n, !.results = [f \in 1..n |-> "pending"]]

\* main of gemini_image_analyzer.py up to the processing: the input path
\* and the API key are required; a single file is analysed at once (ok is
\* result["success"]) and main falls through to its return 0
AnalyzeMain(ok) ==
    /\ job.step = "analyze"
    /\ job.pc = "main"
    /\ job' = IF job.path = "missing" \/ ~job.key
              THEN [job EXCEPT !.pc = "exited", !.code = 1]
              ELSE IF job.path = "file"
              THEN [job EXCEPT !.pc = "exited", !.code = 0,
                               !.results[1] = IF ok THEN "ok" ELSE "failed"]
              ELSE [job EXCEPT !.pc = "run"]
    /\ UNCHANGED <<api, cap, calc>>

\* GeminiImageAnalyzer.process_directory: a worker of the pool runs
\* analyze_image on file f, which returns a result with success set or not
\* (it catches what it raises)
AnalyzeImage(f, ok) ==
    /\ job.step = "analyze"
    /\ job.pc = "run"
    /\ f \in 1..job.files
    /\ job.results[f] = "pending"
    /\ job' = [job EXCEPT !.results[f] = IF ok THEN "ok" ELSE "failed"]
    /\ UNCHANGED <<api, cap, calc>>

\* the pool is done: main counts the results, logs the tally and falls
\* through to its return 0
AnalyzeExit ==
    /\ job.step = "analyze"
    /\ job.pc = "run"
    /\ \A f \in 1..job.files : job.results[f] # "pending"
    /\ LET success_count == Cardinality({f \in 1..job.files : job.results[f] = "ok"})
       IN  job' = [job EXCEPT !.pc = "exited", !.code = 0, !.reported = TRUE,
                              !.next = job.files,
                              !.success = success_count,
                              !.failure = job.files - success_count]
    /\ UNCHANGED <<api, cap, calc>>

\* main of generate_embedding.py up to the processing: the input path is
\* required, a missing API key only turns the provider off; a single file
\* is processed at once (ok is what process_file returns) and decides the
\* exit code
EmbedMain(ok) ==
    /\ job.step = "embed"
    /\ job.pc = "main"
    /\ job' = IF job.path = "missing"
              THEN [job EXCEPT !.pc = "exited", !.code = 1]
              ELSE IF job.path = "file"
              THEN [job EXCEPT !.pc = "exited", !.code = IF ok THEN 0 ELSE 1,
                               !.results[1] = IF ok THEN "ok" ELSE "failed"]
              ELSE [job EXCEPT !.pc = "run"]
    /\ UNCHANGED <<api, cap, calc>>

\* process_directory has returned its tally: return 0 if success_count > 0
\* else 1
EmbedExit ==
    /\ job.step = "embed"
    /\ job.pc = "done"
    /\ job' = [job EXCEPT !.pc = "exited",
                          !.code = IF job.success > 0 THEN 0 ELSE 1]
    /\ UNCHANGED <<api, cap, calc>>

\* main of embed_importer.py (no --question-id) up to the loop of
\* import_embeddings: the input path is required; connect_db raises
\* ("down"), which main catches, or create_embeddings_table fails
\* ("notable") and import_embeddings returns an empty tally, or the loop
\* starts; a single file is a loop of one
ImportMain(db) ==
    /\ job.step = "import"
    /\ job.pc = "main"
    /\ db \in {"ok", "notable", "down"}
    /\ job' = IF job.path = "missing" \/ db = "down"
              THEN [job EXCEPT !.pc = "exited", !.code = 1]
              ELSE IF db = "notable"
              THEN [job EXCEPT !.pc = "done", !.files = 0, !.results = <<>>]
              ELSE [job EXCEPT !.pc = "run"]
    /\ UNCHANGED <<api, cap, calc>>

\* import_embeddings has returned its tally, or raised (the run was
\* aborted) and main returns 1
ImportExit ==
    /\ job.step = "import"
    /\ job.pc \in {"done", "aborted"}
    /\ job' = [job EXCEPT
                 !.pc = "exited",
                 !.code = IF job.pc = "aborted" THEN 1
                          ELSE IF job.failure > 0
                          THEN (IF job.success = 0 THEN 1 ELSE 0)
                          ELSE 0]
    /\ UNCHANGED <<api, cap, calc>>

\* one of the three commands, on a missing path, a file or a directory of
\* up to MaxFiles files
InitExit ==
    /\ IdleApi(ApiBudget)
    /\ calc = NoCalc
    /\ \E step \in {"analyze", "embed", "import"}, path \in Paths, key \in BOOLEAN :
          \E n \in 0..MaxFiles :
             /\ path = "missing" => n = 0
             /\ path = "file" => n = 1
             /\ job = StartMain(step, path, key, n)

NextExit ==
    \/ \E ok \in BOOLEAN : AnalyzeMain(ok)
    \/ \E f \in 1..MaxFiles, ok \in BOOLEAN : AnalyzeImage(f, ok)
    \/ AnalyzeExit
    \/ \E ok \in BOOLEAN : EmbedMain(ok)
    \/ \E f \in 1..MaxFiles, ok \in BOOLEAN : EmbedWork(f, ok)
    \/ EmbedCollect
    \/ EmbedReturn
    \/ EmbedExit
    \/ \E db \in {"ok", "notable", "down"} : ImportMain(db)
    \/ \E outcome \in {"ok", "failed", "lost"} : ImportFile(outcome)
    \/ ImportReturn
    \/ ImportExit

SpecExit == InitExit /\ [][NextExit]_vars

----------------------------------------------------------------------------
(* EmbeddingImporter.import_embedding on one connection                    *)
(* (src/src/embed_importer.py).  A file name is its stem without ".npy":   *)
(* a prefix and a number ("Q1"), a page name ("sample_page_1") or another  *)
(* name, with the suffix "_embedding" or without it.  A row of the         *)
(* embeddings table carries the file it was read from.                     *)

QuestionName(number) == [kind |-> "id", number |-> number]

FileNames ==
    {[kind |-> "id", number |-> 1, embedding |-> TRUE],
     [kind |-> "id", number |-> 1, embedding |-> FALSE],
     [kind |-> "id", number |-> 2, embedding |-> TRUE],
     [kind |-> "page", number |-> 1, embedding |-> TRUE],
     [kind |-> "other", number |-> 0, embedding |-> TRUE]}

\* what the questions table may hold
KnownNames == {QuestionName(1), QuestionName(2), [kind |-> "other", number |-> 0]}

\* extract_question_id: the suffix is removed; a name found in the questions
\* table, or of the form prefix and number, is the id; a page name is the
\* id Q<number> if that is in the questions table; otherwise the name is
\* the id
ExtractQuestionId(file_name, question_ids) ==
    LET name == [kind |-> file_name.kind, number |-> file_name.number]
    IN  IF name \in question_ids THEN name
        ELSE IF name.kind = "id" THEN name
        ELSE IF name.kind = "page" /\ QuestionName(name.number) \in question_ids
        THEN QuestionName(name.number)
        ELSE name

\* DELETE FROM embeddings WHERE question_id = %s
DeleteEmbeddings(rows, question_id) ==
    SelectSeq(rows, LAMBDA r : r.question_id # question_id)

\* the transaction is left open and its statements reach the table with the
\* next commit
RollbackForgotten(committed, work) == work

\* self.conn.rollback(): the statements of the transaction are undone
Rollback(committed, work) == committed

\* an importer connected to a database whose embeddings table is empty
StartImporter(question_ids) ==
    [step |-> "importer", question_ids |-> question_ids, embeddings |-> <<>>,
     log |-> <<>>]

\* import_embedding(file_path): np.load, extract_question_id, DELETE,
\* INSERT, commit; fail names the statement that raises, if any; the INSERT
\* raises as well when question_id is not in the questions table (the
\* foreign key of the embeddings table).  job.log records the calls.
ImportEmbedding(file_name, fail) ==
    /\ job.step = "importer"
    /\ Len(job.log) < MaxImports
    /\ fail \in {"none", "load", "insert", "commit"}
    /\ LET question_id == ExtractQuestionId(file_name, job.question_ids)
           deleted == DeleteEmbeddings(job.embeddings, question_id)
           inserted == Append(deleted, [question_id |-> question_id, file |-> file_name])
           raised == IF fail = "none" /\ question_id \notin job.question_ids
                     THEN "insert" ELSE fail
           work == IF raised = "load" THEN job.embeddings
                   ELSE IF raised = "insert" THEN deleted
                   ELSE inserted
       IN  job' = [job EXCEPT
                     !.embeddings = IF raised = "none" THEN inserted
                                    ELSE Rollback(job.embeddings, work),
                     !.log = Append(@, [question_id |-> question_id,
                                        file |-> file_name,
                                        success |-> raised = "none"])]
    /\ UNCHANGED <<api, cap, calc>>

InitImporter ==
    /\ IdleApi(ApiBudget)
    /\ calc = NoCalc
    /\ \E question_ids \in SUBSET KnownNames : job = StartImporter(question_ids)

NextImporter ==
    \E file_name \in FileNames, fail \in {"none", "load", "insert", "commit"} :
       ImportEmbedding(file_name, fail)

SpecImporter == InitImporter /\ [][NextImporter]_vars

----------------------------------------------------------------------------
(* The retry loops around a provider call: get_gemini_embedding            *)
(* (src/src/generate_embedding.py) and the text loop of analyze_image      *)
(* (src/src/gemini_image_analyzer.py), which are written alike, and the    *)
(* text loop of analyze_image in src/scripts/gemini_image_analyzer.py.     *)
(* job.calls are the responses received, job.waits the delays slept.       *)

RetryLoops == {"get_gemini_embedding", "analyze_image", "scripts_analyze_image"}

\* what a provider call comes back with: a usable response, a status other
\* than 200, a response without the data, or an exception
Responses == {"ok", "status", "nodata", "raised"}

\* time.sleep(3)
FixedDelay == 3

\* time.sleep(2 ** attempt)
Backoff(attempt) == 2 ^ attempt

StartLoop(loop, retry_count) ==
    [step |-> "retry", loop |-> loop, retry_count |-> retry_count, pc |-> "loop",
     attempt |-> 0, calls |-> <<>>, waits |-> <<>>]

\* for attempt in range(retry_count): one turn.  A usable response ends the
\* loop; any other one is followed by the sleep and the next turn while
\* attempt < retry_count - 1, and ends the loop in failure otherwise
BackoffAttempt(response) ==
    /\ job.step = "retry"
    /\ job.loop \in {"get_gemini_embedding", "analyze_image"}
    /\ job.pc = "loop"
    /\ job.attempt < job.retry_count
    /\ job' = IF response = "ok"
              THEN [job EXCEPT !.pc = "returned", !.calls = Append(@, response)]
              ELSE IF job.attempt < job.retry_count - 1
              THEN [job EXCEPT !.attempt = @ + 1, !.calls = Append(@, response),
                               !.waits = Append(@, Backoff(job.attempt))]
              ELSE [job EXCEPT !.pc = "failed", !.calls = Append(@, response)]
    /\ UNCHANGED <<api, cap, calc>>

\* while attempts < retry_count: one turn.  generate_content returns and
\* the loop ends, or raises: attempts is counted up, and the loop ends in
\* failure at retry_count or sleeps three seconds and turns again
FixedDelayAttempt(response) ==
    /\ job.step = "retry"
    /\ job.loop = "scripts_analyze_image"
    /\ job.pc = "loop"
    /\ job.attempt < job.retry_count
    /\ response \in {"ok", "raised"}
    /\ job' = IF response = "ok"
              THEN [job EXCEPT !.pc = "returned", !.calls = Append(@, response)]
              ELSE IF job.attempt + 1 >= job.retry_count
              THEN [job EXCEPT !.pc = "failed", !.attempt = @ + 1,
                               !.calls = Append(@, response)]
              ELSE [job EXCEPT !.attempt = @ + 1, !.calls = Append(@, response),
                               !.waits = Append(@, FixedDelay)]
    /\ UNCHANGED <<api, cap, calc>>

InitRetry ==
    /\ IdleApi(ApiBudget)
    /\ calc = NoCalc
    /\ \E loop \in RetryLoops, retry_count \in 1..MaxRetryCount :
          job = StartLoop(loop, retry_count)

NextRetry ==
    \/ \E response \in Responses : BackoffAttempt(response)
    \/ \E response \in Responses : FixedDelayAttempt(response)

SpecRetry == InitRetry /\ [][NextRetry]_vars

----------------------------------------------------------------------------
(* process_file run by the worker threads of process_directory             *)
(* (src/src/generate_embedding.py), with the provider in use.  The threads *)
(* share numpy's global generator, job.rng: the seed it was last given and *)
(* the number of vectors drawn from it since.  A vector drawn is named by  *)
(* the generator state it was drawn from.                                  *)

Texts == {"", "a", "b", "c"}

\* hash(text_content) of the running interpreter
TextHash(text) ==
    CASE text = "a" -> 4
      [] text = "b" -> 10004
      [] text = "c" -> 0 - 3
      [] OTHER -> 0

\* seed = hash(text_content) % 10000 if text_content else 42
Seed(text) == IF text # "" THEN TextHash(text) % 10000 ELSE 42

\* the generator before any call of np.random.seed
Unseeded == [seed |-> 0 - 1, drawn |-> 0]

NoVector == [seed |-> 0 - 1, drawn |-> 0 - 1]

StartFallback(texts) ==
    [step |-> "fallback", texts |-> texts, rng |-> Unseeded,
     pc |-> [f \in 1..Len(texts) |-> "queued"],
     vector |-> [f \in 1..Len(texts) |-> NoVector]]

\* the files some worker is busy with
Busy == {f \in 1..Len(job.texts) : job.pc[f] \in {"read", "fallback", "seeded"}}

\* a worker takes the next file of the queue and reads its text_content:
\* without text process_file returns False
ProcessFileRead(f) ==
    /\ job.step = "fallback"
    /\ f \in 1..Len(job.texts)
    /\ job.pc[f] = "queued"
    /\ \A g \in 1..(f - 1) : job.pc[g] # "queued"
    /\ Cardinality(Busy) < EffectiveWorkers
    /\ job' = [job EXCEPT !.pc[f] = IF job.texts[f] = "" THEN "False" ELSE "read"]
    /\ UNCHANGED <<api, cap, calc>>

\* get_gemini_embedding returns the provider's embedding, which is saved,
\* or None after its last attempt
ProcessFileEmbed(f, ok) ==
    /\ job.step = "fallback"
    /\ f \in 1..Len(job.texts)
    /\ job.pc[f] = "read"
    /\ job' = [job EXCEPT !.pc[f] = IF ok THEN "True" ELSE "fallback"]
    /\ UNCHANGED <<api, cap, calc>>

\* np.random.seed(seed)
ProcessFileSeed(f) ==
    /\ job.step = "fallback"
    /\ f \in 1..Len(job.texts)
    /\ job.pc[f] = "fallback"
    /\ job' = [job EXCEPT !.pc[f] = "seeded",
                          !.rng = [seed |-> Seed(job.texts[f]), drawn |-> 0]]
    /\ UNCHANGED <<api, cap, calc>>

\* np.random.normal(...), normalised and saved: process_file returns True
ProcessFileDraw(f) ==
    /\ job.step = "fallback"
    /\ f \in 1..Len(job.texts)
    /\ job.pc[f] = "seeded"
    /\ job' = [job EXCEPT !.pc[f] = "True",
                          !.vector[f] = job.rng,
                          !.rng.drawn = @ + 1]
    /\ UNCHANGED <<api, cap, calc>>

InitFallback ==
    /\ IdleApi(ApiBudget)
    /\ calc = NoCalc
    /\ \E n \in 1..MaxFiles : \E texts \in [1..n -> Texts] : job = StartFallback(texts)

NextFallback ==
    \E f \in 1..MaxFiles :
        \/ ProcessFileRead(f)
        \/ \E ok \in BOOLEAN : ProcessFileEmbed(f, ok)
        \/ ProcessFileSeed(f)
        \/ ProcessFileDraw(f)

SpecFallback == InitFallback /\ [][NextFallback]_vars

----------------------------------------------------------------------------
(* ClaudeImageAnalyzer.batch_analyze (src/scripts/claude_image_analyzer.py) *)

\* analyze_image: None for a file that is not there (or not an image), the
\* parsed result when the provider answers with JSON, a result holding the
\* raw response when it answers without, and a dict holding the error when
\* the request raises
AnalyzeImageResult(outcome) ==
    CASE outcome = "missing" -> "None"
      [] outcome = "ok" -> "result"
      [] outcome = "nojson" -> "raw"
      [] OTHER -> "error"

\* if result: a dict that is not empty is true
Truthy(result) == result # "None"

\* batch_analyze, one turn of its loop over image_files
ClaudeFile(outcome) ==
    /\ job.step = "claude"
    /\ job.pc = "run"
    /\ job.next < job.files
    /\ outcome \in {"ok", "nojson", "raised", "missing"}
    /\ LET result == AnalyzeImageResult(outcome)
       IN  job' = [job EXCEPT
                     !.next = @ + 1,
                     !.results[job.next + 1] = outcome,
                     !.success = IF Truthy(result) THEN @ + 1 ELSE @,
                     !.failure = IF Truthy(result) THEN @ ELSE @ + 1]
    /\ UNCHANGED <<api, cap, calc>>

\* the loop is over (or no image was found): the tally is logged and returned
ClaudeReturn ==
    /\ job.step = "claude"
    /\ job.pc = "run"
    /\ job.next = job.files
    /\ job' = [job EXCEPT !.pc = "done", !.reported = TRUE]
    /\ UNCHANGED <<api, cap, calc>>

InitClaude ==
    /\ IdleApi(ApiBudget)
    /\ calc = NoCalc
    /\ \E n \in 0..MaxFiles : job = StartJob("claude", n)

NextClaude ==
    \/ \E outcome \in {"ok", "nojson", "raised", "missing"} : ClaudeFile(outcome)
    \/ ClaudeReturn

SpecClaude == InitClaude /\ [][NextClaude]_vars

----------------------------------------------------------------------------
(* GeminiImageAnalyzer.analyze_image on one image, in its two versions     *)
(* (src/src/gemini_image_analyzer.py, src/scripts/gemini_image_analyzer.py) *)
(* with extract_text on.  job.text, job.multimodal and job.embed tell      *)
(* whether the provider answers the retry loop of that kind in the end.    *)

NoResult ==
    [success |-> FALSE, text_content |-> FALSE, embedding |-> FALSE,
     multimodal_embedding |-> FALSE, error |-> FALSE, json |-> FALSE, npy |-> FALSE]

\* an analyzer as constructed (options) is called on an image for which
\* the provider will answer or not (answers)
StartAnalysis(version, options, answers) ==
    [step |-> "analyze_image", version |-> version, pc |-> "call",
     get_embedding |-> options.get_embedding,
     use_multimodal_embedding |-> options.use_multimodal_embedding,
     output_dir |-> options.output_dir,
     text |-> answers.text, multimodal |-> answers.multimodal,
     embed |-> answers.embed, result |-> NoResult]

\* the end of analyze_image in both versions: success is set and the files
\* are written
Finish(result, output_dir) ==
    LET success == result.text_content \/ result.embedding
                       \/ result.multimodal_embedding
    IN  [result EXCEPT !.success = success,
                       !.json = output_dir /\ success /\ result.text_content,
                       !.npy = output_dir /\ success /\ result.embedding]

\* src/src: a loop that fails for good returns the result as it is, with
\* success still False, except the multimodal loop, which goes on
SrcAnalyzeImage ==
    /\ job.step = "analyze_image"
    /\ job.version = "src"
    /\ job.pc = "call"
    /\ LET texted == [NoResult EXCEPT !.text_content = job.text, !.error = ~job.text]
           multi == IF job.use_multimodal_embedding
                    THEN [texted EXCEPT !.multimodal_embedding = job.multimodal,
                                        !.error = ~job.multimodal]
                    ELSE texted
           embedded == [multi EXCEPT !.embedding = job.embed,
                                     !.error = @ \/ ~job.embed]
       IN  job' = [job EXCEPT
                     !.pc = "returned",
                     !.result = IF ~job.text THEN texted
                                ELSE IF ~job.get_embedding THEN Finish(texted, job.output_dir)
                                ELSE IF ~job.embed THEN embedded
                                ELSE Finish(embedded, job.output_dir)]
    /\ UNCHANGED <<api, cap, calc>>

\* src/scripts: the text loop that fails for good returns the result as it
\* is; an exception of embed_content is recorded and the function goes on;
\* without text the embedding is a vector of zeros
ScriptsAnalyzeImage ==
    /\ job.step = "analyze_image"
    /\ job.version = "scripts"
    /\ job.pc = "call"
    /\ LET texted == [NoResult EXCEPT !.text_content = job.text, !.error = ~job.text]
           embedded == [texted EXCEPT !.embedding = job.embed, !.error = ~job.embed]
       IN  job' = [job EXCEPT
                     !.pc = "returned",
                     !.result = IF ~job.text THEN texted
                                ELSE IF ~job.get_embedding THEN Finish(texted, job.output_dir)
                                ELSE Finish(embedded, job.output_dir)]
    /\ UNCHANGED <<api, cap, calc>>

InitAnalysis ==
    /\ IdleApi(ApiBudget)
    /\ calc = NoCalc
    /\ \E version \in {"src", "scripts"},
          options \in [get_embedding : BOOLEAN, use_multimodal_embedding : BOOLEAN,
                       output_dir : BOOLEAN],
          answers \in [text : BOOLEAN, multimodal : BOOLEAN, embed : BOOLEAN] :
          /\ version = "scripts" => ~options.use_multimodal_embedding
          /\ ~options.use_multimodal_embedding => ~answers.multimodal
          /\ job = StartAnalysis(version, options, answers)

NextAnalysis == SrcAnalyzeImage \/ ScriptsAnalyzeImage

SpecAnalysis == InitAnalysis /\ [][NextAnalysis]_vars

----------------------------------------------------------------------------
(* MarkdownImporter.import_markdown (src/scripts/markdown_importer.py).    *)
(* year_list, a text of years joined by commas, is the sequence of its     *)
(* years; the years are four digits, so that the order of the strings is   *)
(* the order of the numbers.                                               *)

Years == {2023, 2024, 2025}

MarkdownIds == {"Q001", "Q002"}

\* set(year_list.split(',')) if year_list else set()
SplitYears(year_list) == Range(year_list)

RECURSIVE SortedYears(_)
\* ','.join(sorted(years))
SortedYears(years) ==
    IF years = {} THEN <<>>
    ELSE LET m == CHOOSE x \in years : \A y \in years : x <= y
         IN  <<m>> \o SortedYears(years \ {m})

\* the year is put at the end of the text
YearAppended(year_list, year) == Append(year_list, year)

\* years.add(year); new_year_list = ','.join(sorted(years))
NewYearList(year_list, year) == SortedYears(SplitYears(year_list) \cup {year})

\* the questions table is there, empty or with a row that has no year yet
StartMarkdown(rows) ==
    [step |-> "markdown", questions |-> rows, log |-> <<>>]

\* import_markdown(markdown_path, year, question_id) on a connection of its
\* own: the row is updated or inserted and the change committed, or the
\* call fails (the file is missing, the database raises) and commits nothing
ImportMarkdown(question_id, year, body, ok) ==
    /\ job.step = "markdown"
    /\ Len(job.log) < MaxImports
    /\ LET existing == {i \in 1..Len(job.questions) : job.questions[i].id = question_id}
           updated == [i \in 1..Len(job.questions) |->
                          IF i \in existing
                          THEN [job.questions[i] EXCEPT
                                  !.body = body,
                                  !.year_list = NewYearList(@, year)]
                          ELSE job.questions[i]]
           inserted == Append(job.questions,
                              [id |-> question_id, body |-> body, year_list |-> <<year>>])
       IN  job' = [job EXCEPT
                     !.questions = IF ~ok THEN @
                                   ELSE IF existing # {} THEN updated ELSE inserted,
                     !.log = Append(@, [question_id |-> question_id, year |-> year,
                                        body |-> body, success |-> ok])]
    /\ UNCHANGED <<api, cap, calc>>

InitMarkdown ==
    /\ IdleApi(ApiBudget)
    /\ calc = NoCalc
    /\ \E rows \in {<<>>, <<[id |-> "Q001", body |-> "old", year_list |-> <<>>]>>} :
          job = StartMarkdown(rows)

NextMarkdown ==
    \E question_id \in MarkdownIds, year \in Years, body \in {"v1", "v2"},
       ok \in BOOLEAN :
       ImportMarkdown(question_id, year, body, ok)

SpecMarkdown == InitMarkdown /\ [][NextMarkdown]_vars

----------------------------------------------------------------------------
(* The score computed on its own *)

\* the batches whose score is computed: up to MaxScoreItems answers to the
\* six questions of the table and to the unknown one
Batches == UNION {[1..n -> Items] : n \in 1..MaxScoreItems}

\* a batch, and one of its wrong answers to be turned into a right one
InitScore ==
    /\ IdleApi(ApiBudget)
    /\ job = NoJob
    /\ \E answers \in Batches :
          \E k \in {i \in 1..Len(answers) : ~answers[i].status} :
             calc = [NoCalc EXCEPT !.pc = "batch", !.answers = answers, !.flip = k]

\* total_score as save_user_answers computes it for a batch: the counts of
\* the answers to known questions, then _calculate_score
SessionScore(answers) ==
    LET question_info == QuestionInfo(answers)
        known == {i \in 1..Len(answers) : answers[i].question_id \in question_info}
        correct_count == Cardinality({i \in known : answers[i].status})
        wrong_count == Cardinality({i \in known : ~answers[i].status})
    IN  CalculateScore(correct_count, wrong_count, question_info, answers)

\* the score of the batch as drawn
ScoreBatch ==
    /\ calc.pc = "batch"
    /\ calc' = [calc EXCEPT !.pc = "flipped", !.score = SessionScore(calc.answers)]
    /\ UNCHANGED <<api, cap, job>>

\* the score of the batch with the chosen answer right
ScoreFlipped ==
    /\ calc.pc = "flipped"
    /\ calc' = [calc EXCEPT
                  !.pc = "done",
                  !.flipped = SessionScore([calc.answers EXCEPT
                                              ![calc.flip].status = TRUE])]
    /\ UNCHANGED <<api, cap, job>>

NextScore == ScoreBatch \/ ScoreFlipped

SpecScore == InitScore /\ [][NextScore]_vars

\* every operation, in every slot
Next ==
    \/ \E s \in Slots :
          \/ /\ Free(s)
             /\ Quiet
             /\ \E t \in ApiTokens, fetched \in FetchOutcomes(jwks) :
                   \/ \E u \in Users, e \in ExamTypes, dbok \in BOOLEAN :
                         \/ CreateUserAnswers(s, t, fetched, u, e, dbok)
                         \/ GetUserStats(s, t, fetched, u, e, dbok)
                         \/ \E limit \in Limits :
                               \/ GetWeakQuestions(s, t, fetched, u, e, limit, dbok)
                               \/ GetFrequentQuestions(s, t, fetched, u, e, limit, dbok)
                   \/ CreateFrequentQuestions(s, t, fetched)
                   \/ \E q \in QuestionIdInputs, dbok \in BOOLEAN :
                         GetQuestion(s, t, fetched, q, dbok)
          \/ Quiet /\ SubmissionSteps(s, Items)
          \/ Quiet /\ FqSteps(s, FqItems)
          \/ Close(s)
    \/ Quiet /\ Tick
    \/ Quiet /\ \E published \in KeySets : RotateKeys(published)

Spec == Init /\ [][Next]_vars

----------------------------------------------------------------------------
(* Properties of answer submission, checked under SpecAnswers *)

\* the committed UserAnswer rows of submission k
AnswerRowsOf(k) == SelectSeq(userAnswers, LAMBDA r : r.sub = k)

\* the committed UserStat rows of submission k
StatRowsOf(k) == SelectSeq(userStats, LAMBDA r : r.sub = k)

\* the items of a batch whose question exists
AcceptedItems(items) == SelectSeq(items, LAMBDA i : i.question_id \in QuestionIds)

\* C1: answer submission is all-or-nothing.  A submission that failed in
\* its queries, while flushing a row or at its commit (which writes the
\* stat) answered 500 and left no UserAnswer and no UserStat row; while a
\* submission is still inserting, the committed tables hold none of its
\* rows; and once any row of a submission is committed, all the rows it
\* flushed and its stat are.
C1_AllOrNothing ==
    /\ \A s \in Slots :
          req[s].op = "post_answers" /\ req[s].failed = "query" =>
             /\ resp[s].status = 500
             /\ sess[s].pending = <<>>
             /\ req[s].sub = 0
    /\ \A s \in Slots :
          req[s].op = "post_answers" /\ req[s].sub # 0 =>
             /\ req[s].failed \in {"flush", "commit"} =>
                   /\ req[s].pc = "done"
                   /\ resp[s].status = 500
                   /\ AnswerRowsOf(req[s].sub) = <<>>
                   /\ StatRowsOf(req[s].sub) = <<>>
             /\ req[s].pc = "items" =>
                   /\ AnswerRowsOf(req[s].sub) = <<>>
                   /\ StatRowsOf(req[s].sub) = <<>>
             /\ req[s].pc = "done" /\ req[s].failed \in {"none", "refresh"} =>
                   /\ [i \in 1..Len(req[s].ids) |-> AnswerRowsOf(req[s].sub)[i].id]
                         = req[s].ids
                   /\ Len(AnswerRowsOf(req[s].sub)) = Len(req[s].ids)
                   /\ Len(StatRowsOf(req[s].sub)) = 1
    /\ \A k \in 1..nsub :
          AnswerRowsOf(k) # <<>> => StatRowsOf(k) # <<>>

\* a commit failed after rows had been flushed
C1_Witness ==
    \E s \in Slots :
       /\ req[s].pc = "done"
       /\ req[s].op = "post_answers"
       /\ req[s].failed = "commit"
       /\ req[s].ids # <<>>
       /\ resp[s].status = 500

\* C2: a UserStat snapshot is created together with its UserAnswer batch.
\* Every committed submission has exactly one UserStat row, for its
\* (user_id, exam_type), whose correct_count + wrong_count is the number of
\* UserAnswer rows the submission inserted; no UserAnswer row is without its
\* snapshot and no snapshot is without its committed batch.
C2_SnapshotWithBatch ==
    /\ \A i \in 1..Len(userStats) :
          LET st == userStats[i]
              rows == AnswerRowsOf(st.sub)
          IN  /\ st.correct_count + st.wrong_count = Len(rows)
              /\ st.correct_count = Len(SelectSeq(rows, LAMBDA r : r.status))
              /\ \A j \in 1..Len(rows) :
                    rows[j].user_id = st.user_id /\ rows[j].exam_type = st.exam_type
              /\ Len(StatRowsOf(st.sub)) = 1
    /\ \A j \in 1..Len(userAnswers) : Len(StatRowsOf(userAnswers[j].sub)) = 1
    /\ \A s \in Slots :
          /\ req[s].op = "post_answers"
          /\ req[s].pc = "done"
          /\ req[s].failed \in {"none", "refresh"}
          => /\ Len(StatRowsOf(req[s].sub)) = 1
             /\ StatRowsOf(req[s].sub)[1].user_id = req[s].user_id
             /\ StatRowsOf(req[s].sub)[1].exam_type = req[s].exam_type

\* a submission of two answers is committed, its snapshot counting both
C2_Witness ==
    \E s \in Slots :
       /\ req[s].pc = "done"
       /\ resp[s].status = 201
       /\ Len(req[s].ids) = 2
       /\ Len(AnswerRowsOf(req[s].sub)) = 2
       /\ \E i \in 1..Len(userStats) :
             /\ userStats[i].sub = req[s].sub
             /\ userStats[i].correct_count + userStats[i].wrong_count = 2

\* C3: a submission that answers 201 persisted one UserAnswer row per item
\* whose question exists, in item order, and none for the other items; the
\* returned id list is those rows' ids; correct_count, wrong_count and the
\* score are those of the accepted items alone; with no accepted item the
\* stat has score 0 and both counts 0.
C3_AcceptedItemsOnly ==
    \A s \in Slots :
       req[s].op = "post_answers" /\ req[s].pc = "done" /\ resp[s].status = 201 =>
          LET acc == AcceptedItems(req[s].items)
              rows == AnswerRowsOf(req[s].sub)
              correct == Len(SelectSeq(acc, LAMBDA i : i.status))
              wrong == Len(SelectSeq(acc, LAMBDA i : ~i.status))
              stat == resp[s].new
          IN  /\ Len(rows) = Len(acc)
              /\ Len(resp[s].ids) = Len(acc)
              /\ \A i \in 1..Len(acc) :
                    /\ rows[i].id = resp[s].ids[i]
                    /\ rows[i].question_id = acc[i].question_id
                    /\ rows[i].answer_id = acc[i].answer_id
                    /\ rows[i].status = acc[i].status
                    /\ i > 1 => rows[i - 1].id < rows[i].id
              /\ stat.correct_count = correct
              /\ stat.wrong_count = wrong
              /\ stat.total_score =
                    CalculateScore(correct, wrong, QuestionInfo(acc), acc)
              /\ StatRowsOf(req[s].sub) = <<stat>>
              /\ acc = <<>> =>
                    /\ stat.total_score = 0
                    /\ stat.correct_count = 0
                    /\ stat.wrong_count = 0

\* a batch of an unknown question answered "correct" and a known one answered
\* wrong is accepted: one row, one id, the score that of the known item
C3_Witness ==
    \E s \in Slots :
       /\ req[s].op = "post_answers"
       /\ req[s].pc = "done"
       /\ resp[s].status = 201
       /\ Len(req[s].items) = 2
       /\ req[s].items[1].question_id \notin QuestionIds
       /\ req[s].items[2].question_id \in QuestionIds
       /\ Len(resp[s].ids) = 1
       /\ resp[s].new.wrong_count + resp[s].new.correct_count = 1

----------------------------------------------------------------------------
(* Properties of the caller-match check, checked under SpecUser *)

\* the endpoints that take a user_id
UserIdOps == {"post_answers", "get_stats", "get_weak", "get_freq"}

\* what C4 asks of one step
C4Step ==
    /\ \A s \in Slots :
          /\ req[s].pc = "idle"
          /\ req'[s].op \in UserIdOps
          /\ req'[s].subject # "none"
          => IF req'[s].user_id # req'[s].subject
             THEN /\ req'[s].pc = "done"
                  /\ resp'[s].status = 403
                  /\ resp'[s].list = <<>>
                  /\ resp'[s].ids = <<>>
                  /\ ~sess'[s].used
                  /\ tables' = tables
             ELSE resp'[s].status # 403
    /\ \A i \in 1..Len(userAnswers') :
          userAnswers'[i].user_id = userAnswers'[i].subject
    /\ \A i \in 1..Len(userStats') :
          userStats'[i].user_id = userStats'[i].subject

\* C4: every endpoint that takes a user_id checks it against the token's
\* subject before it uses the database.  An authenticated request whose
\* user_id is not the subject ends with 403, its session unused and the
\* tables unchanged; one whose user_id is the subject is not answered 403;
\* every UserAnswer and UserStat row has the user_id of the subject whose
\* request wrote it.
C4_CallerMatch == [][C4Step]_vars

\* with answers stored for u1, a read of them by another subject ends with 403
C4_Witness ==
    \E s \in Slots :
       /\ req[s].pc = "done"
       /\ req[s].op = "get_weak"
       /\ req[s].subject \in Users
       /\ req[s].user_id \in Users \ {req[s].subject}
       /\ resp[s].status = 403
       /\ \E i \in 1..Len(userAnswers) : userAnswers[i].user_id = req[s].user_id

----------------------------------------------------------------------------
(* Properties of token verification, checked under SpecAuth *)

\* a token that fails verification at time `time` against the key cache as
\* the look-up left it: no readable header, key id unknown after the refresh,
\* bad signature, wrong audience or issuer, exp in the past or absent
FailsVerification(t, cache, time) ==
    \/ t.kid = "nokid"
    \/ t.kid \notin cache
    \/ ~t.sig
    \/ ~t.aud
    \/ ~t.iss
    \/ t.exp = NoExp
    \/ t.exp < time

\* what C5 asks of one step
C5Step ==
    \A s \in Slots :
       req[s].pc = "idle" /\ req'[s].op = "get_question" =>
          LET t == req'[s].token IN
          /\ FailsVerification(t, keys', now) =>
                /\ resp'[s].status = 401
                /\ req'[s].subject = "none"
                /\ resp'[s].list = <<>>
                /\ ~sess'[s].open
          /\ t.exp # NoExp /\ t.exp < now => resp'[s].status = 401

\* C5: a request whose token fails verification (unreadable, key id unknown
\* after the refresh, bad signature, wrong audience or issuer, expired) is
\* answered 401, with no identity and no other status; a token whose exp is
\* in the past is answered 401 whether or not its signature verifies.
C5_VerificationFailureIs401 == [][C5Step]_vars

\* a correctly signed token of a known key, past its exp, was answered 401
C5_Witness ==
    \E s \in Slots :
       /\ req[s].pc = "done"
       /\ req[s].op = "get_question"
       /\ req[s].token.sig
       /\ req[s].token.aud
       /\ req[s].token.iss
       /\ req[s].token.kid \in keys
       /\ req[s].token.sub \in Users
       /\ req[s].token.username # "absent"
       /\ req[s].token.exp = 1
       /\ now = 2
       /\ resp[s].status = 401

\* C6: a token that passes the signature, audience, issuer and expiry checks
\* and carries sub and exp is accepted and yields the caller's identity,
\* also when username, email and groups are absent.
C6_OptionalClaims ==
    \A s \in Slots :
       /\ req[s].pc = "done"
       /\ req[s].op = "get_question"
       /\ req[s].token.kid \in keys
       /\ req[s].token.sig
       /\ req[s].token.aud
       /\ req[s].token.iss
       /\ req[s].token.exp > MaxTime
       /\ req[s].token.sub \in Users
       => /\ resp[s].status # 401
          /\ req[s].subject = req[s].token.sub

\* a verification begins in slot s in this step
Verifies(s) == req[s].pc = "idle" /\ req'[s].op = "get_question"

\* what C23 asks of one step
C23Step ==
    /\ \A s \in Slots :
          Verifies(s) =>
             LET kid == req'[s].token.kid IN
             IF kid = "nokid" \/ kid \in keys
             THEN ~req'[s].fetched /\ keys' = keys
             ELSE /\ req'[s].fetched
                  /\ keys' = jwks \/ (keys' = keys /\ resp'[s].status = 401)
                  /\ kid \notin keys' => resp'[s].status = 401
    /\ keys' # keys => \E s \in Slots : Verifies(s) /\ req'[s].fetched

\* C23: a verification fetches the key set only when the token's key id is
\* not cached, and then once: the cache becomes the published set, or
\* stays as it was when the fetch fails, and the token is answered 401 if
\* its key id is still not cached; nothing else changes the cache.
C23_RefreshOnMissOnly == [][C23Step]_vars

\* a token signed with a key published after start-up was accepted after
\* the refresh it caused
C23_Witness ==
    \E s \in Slots :
       /\ req[s].pc = "done"
       /\ req[s].fetched
       /\ req[s].token.kid \in keys
       /\ req[s].token.kid # "k1"
       /\ resp[s].status = 200

----------------------------------------------------------------------------
(* Properties of the request's session, checked under SpecSessions *)

\* what C24 asks of one step: a session is opened only as a request begins
\* and closed only as a finished request is let go, and a step touches the
\* session of one request only
C24Step ==
    /\ \A s \in Slots :
          /\ ~sess[s].open /\ sess'[s].open => req[s].pc = "idle" /\ req'[s].pc # "idle"
          /\ sess[s].open /\ ~sess'[s].open => req[s].pc = "done" /\ req'[s].pc = "idle"
    /\ \A s, r \in Slots : sess'[s] # sess[s] /\ sess'[r] # sess[r] => s = r

\* no session outlives its request: a request begins without one
C24Fresh == \A s \in Slots : req[s].pc = "idle" => sess[s] = NoSession

\* C24: each request runs against a session of its own, opened as the
\* request begins and closed once when it ends, whether the handler
\* returned, raised an HTTP error or raised an unexpected exception; every
\* session opened is eventually closed.
C24_SessionReleased ==
    /\ [][C24Step]_vars
    /\ []C24Fresh
    /\ \A s \in Slots : sess[s].open ~> ~sess[s].open

\* two requests hold a session each: one failed on the database, the other
\* is still adding its answers
C24_Witness ==
    /\ sess["r1"].open
    /\ sess["r2"].open
    /\ \E s, r \in Slots :
          /\ req[s].pc = "done"
          /\ resp[s].status = 500
          /\ req[r].pc = "items"
          /\ Len(sess[r].pending) > 0

----------------------------------------------------------------------------
(* Properties of the frequent-question upsert, checked under SpecFq *)

\* the rows of a (question_id, exam_type) pair
PairRows(fqs, question_id, exam_type) ==
    SelectSeq(fqs, LAMBDA r : r.question_id = question_id /\ r.exam_type = exam_type)

\* C7: an upsert of an existing (question_id, exam_type) pair, made while no
\* other request is running, leaves exactly one row for the pair, holding
\* the score just written; so do two such upserts in sequence.
C7_SequentialUpsert ==
    [][\A s \in Slots :
          /\ req[s].pc = "fq_write"
          /\ req'[s].pc = "fq"
          /\ req[s].found # 0
          /\ \A r \in Slots \ {s} : req[r].pc = "idle"
          => LET rows == PairRows(frequentQuestions', req[s].cur.question_id,
                                  req[s].cur.exam_type)
             IN  /\ Len(rows) = 1
                 /\ rows[1].final_score = req[s].cur.final_score]_vars

\* C8: FrequentQuestion rows are unique per (question_id, exam_type) in
\* every reachable state.
C8_UniquePair ==
    \A i, j \in 1..Len(frequentQuestions) :
       /\ frequentQuestions[i].question_id = frequentQuestions[j].question_id
       /\ frequentQuestions[i].exam_type = frequentQuestions[j].exam_type
       => i = j

\* C9: a batch upsert that fails with an exception while it looks an item
\* up or commits it (so that this item wrote nothing) leaves none of the
\* batch's earlier items persisted.
C9_BatchRollback ==
    \A s \in Slots :
       /\ req[s].op = "post_freq"
       /\ req[s].pc = "done"
       /\ resp[s].status = 500
       /\ req[s].failed \in {"query", "commit"}
       => \A i \in 1..Len(frequentQuestions) : frequentQuestions[i].batch # req[s].sub

\* the items of a batch whose question exists
ValidFqItems(items) == SelectSeq(items, LAMBDA i : i.question_id \in QuestionIds)

\* C10: the batch upsert skips the items whose question does not exist and
\* goes on.  While the loop runs and when it returns, updated_count is the
\* number of processed items whose question exists; each of them has a row
\* for its pair; no FrequentQuestion row names a question that does not exist.
C10_SkipUnknown ==
    /\ \A s \in Slots :
          req[s].op = "post_freq" /\ req[s].pc \in {"fq", "done"} /\ req[s].failed = "none" =>
             LET valid == ValidFqItems(req[s].fqitems)
             IN  /\ req[s].count = Len(valid)
                 /\ req[s].pc = "done" =>
                       /\ resp[s].status = 201
                       /\ resp[s].count = Len(valid)
                 /\ \A i \in 1..Len(valid) :
                       PairRows(frequentQuestions, valid[i].question_id,
                                valid[i].exam_type) # <<>>
    /\ \A i \in 1..Len(frequentQuestions) :
          frequentQuestions[i].question_id \in QuestionIds

\* a batch of an unknown question followed by a known one returned 1, the
\* known one's row written by this batch
C10_Witness ==
    \E s \in Slots :
       /\ req[s].op = "post_freq"
       /\ req[s].pc = "done"
       /\ resp[s].status = 201
       /\ Len(req[s].fqitems) = 2
       /\ req[s].fqitems[1].question_id \notin QuestionIds
       /\ req[s].fqitems[2].question_id \in QuestionIds
       /\ resp[s].count = 1
       /\ \E i \in 1..Len(frequentQuestions) :
             /\ frequentQuestions[i].batch = req[s].sub
             /\ frequentQuestions[i].question_id = req[s].fqitems[2].question_id
             /\ frequentQuestions[i].exam_type = req[s].fqitems[2].exam_type

----------------------------------------------------------------------------
(* Properties of the admin gate, checked under SpecAdmin *)

\* one step: the table of frequent questions changes only in the write of
\* a batch whose caller carries the admin group, and a batch request whose
\* verified token does not carry it ends at once with 403
C11Step ==
    /\ frequentQuestions' # frequentQuestions =>
          \E s \in Slots :
             /\ req[s].op = "post_freq"
             /\ req[s].pc = "fq_write"
             /\ req[s].groups = "admin"
             /\ req'[s] # req[s]
    /\ \A s \in Slots :
          /\ req[s].pc = "idle"
          /\ req'[s].op = "post_freq"
          /\ req'[s].failed # "auth"
          /\ req'[s].groups # "admin"
          => /\ resp'[s].status = 403
             /\ req'[s].pc = "done"
             /\ frequentQuestions' = frequentQuestions

\* C11: FrequentQuestion rows are created or updated only by the batch
\* endpoint on behalf of a caller whose verified groups contain "admin"; a
\* POST /frequent-questions of any other verified caller is answered 403 and
\* leaves the table as it was, and no other operation changes the table.
C11_AdminGate == [][C11Step]_vars

\* a student's batch was refused while the table holds rows an admin wrote
C11_Witness ==
    /\ req["r1"].op = "post_freq"
    /\ req["r1"].groups = "student"
    /\ resp["r1"].status = 403
    /\ frequentQuestions # <<>>

----------------------------------------------------------------------------
(* Properties of GET /frequent-questions, checked under SpecFreq, where    *)
(* one request runs at a time: the tables a response is compared with are  *)
(* the tables its queries read                                             *)

\* slot s holds the answer of a successful GET /frequent-questions
FreqAnswered(s) ==
    /\ req[s].pc = "done"
    /\ req[s].op = "get_freq"
    /\ resp[s].status = 200

\* the caller's answer rows for the requested exam type that are among the
\* RecentLimit newest: fewer than RecentLimit other rows are as new or newer
RecentRows(s) ==
    LET mine == {r \in Range(userAnswers) :
                    r.user_id = req[s].user_id /\ r.exam_type = req[s].exam_type}
    IN  {r \in mine :
            Cardinality({o \in mine \ {r} : o.created_at >= r.created_at})
               < RecentLimit}

EligibleRows(s) ==
    {k \in 1..Len(frequentQuestions) :
        /\ frequentQuestions[k].exam_type = req[s].exam_type
        /\ \A r \in Range(userAnswers) :
              r.user_id = req[s].user_id /\ r.exam_type = req[s].exam_type
                 => r.question_id # frequentQuestions[k].question_id}

\* C13: get_frequent_questions returns at most limit ids; they are the
\* question ids of distinct eligible rows (of the requested exam type, not
\* excluded) in non-increasing final_score order; no eligible row left out
\* has a higher final_score than a returned one; with no eligible row the
\* answer is 200 with an empty list.
C13_TopByScore ==
    \A s \in Slots :
        /\ FreqAnswered(s) =>
              /\ Len(resp[s].list) <= req[s].limit
              /\ \E f \in [1..Len(resp[s].list) -> EligibleRows(s)] :
                    /\ \A i, j \in DOMAIN f : i # j => f[i] # f[j]
                    /\ \A i \in DOMAIN f :
                          frequentQuestions[f[i]].question_id = resp[s].list[i]
                    /\ \A i, j \in DOMAIN f :
                          i < j => frequentQuestions[f[i]].final_score
                                      >= frequentQuestions[f[j]].final_score
                    /\ \A k \in EligibleRows(s) \ {f[i] : i \in DOMAIN f} :
                          \A i \in DOMAIN f :
                             frequentQuestions[k].final_score
                                <= frequentQuestions[f[i]].final_score
        /\ /\ req[s].pc = "done"
           /\ req[s].op = "get_freq"
           /\ req[s].failed = "none"
           /\ EligibleRows(s) = {}
           => resp[s].status = 200 /\ resp[s].list = <<>>

\* two eligible rows of different scores and limit 1: the answer is the
\* question of the higher one
C13_Witness ==
    /\ FreqAnswered("r1")
    /\ req["r1"].limit = 1
    /\ Len(resp["r1"].list) = 1
    /\ \E a, b \in EligibleRows("r1") :
          frequentQuestions[a].final_score < frequentQuestions[b].final_score

----------------------------------------------------------------------------
(* Properties of GET /weak-questions, checked under SpecWeak, where one    *)
(* request runs at a time: the tables a response is compared with are the  *)
(* tables its queries read                                                 *)

\* slot s holds the answer of a successful GET /weak-questions
WeakAnswered(s) ==
    /\ req[s].pc = "done"
    /\ req[s].op = "get_weak"
    /\ resp[s].status = 200

\* the number of incorrect answers of the caller of slot s to question q in
\* the requested exam type
IncorrectOf(s, q) ==
    Cardinality({r \in Range(userAnswers) :
                    /\ r.user_id = req[s].user_id
                    /\ r.exam_type = req[s].exam_type
                    /\ ~r.status
                    /\ r.question_id = q})

\* the questions the caller of slot s answered incorrectly
Candidates(s) == {q \in QuestionIdInputs : IncorrectOf(s, q) > 0}

Min(a, b) == IF a < b THEN a ELSE b

\* the HIGH questions of the requested exam type
HighQuestions(s) ==
    {q \in QuestionIds :
        Question[q].difficulty = "HIGH" /\ Question[q].exam_type = req[s].exam_type}

\* C14: for a caller with no incorrect answer on record for the exam type,
\* get_weak_questions returns the HIGH questions of that exam type with the
\* smallest ids, in ascending id order, limit of them at most.
C14_FallbackHigh ==
    \A s \in Slots :
        WeakAnswered(s) /\ Candidates(s) = {} =>
            LET list == resp[s].list IN
            /\ \A i \in 1..Len(list) : list[i] \in HighQuestions(s)
            /\ \A i, j \in 1..Len(list) : i < j => list[i] < list[j]
            /\ Len(list) = Min(req[s].limit, Cardinality(HighQuestions(s)))
            /\ \A q \in HighQuestions(s) \ Range(list) :
                  \A i \in 1..Len(list) : list[i] < q

\* the caller has only a right answer on record, e1 has two HIGH questions
\* and limit 1 keeps the first
C14_Witness ==
    /\ WeakAnswered("r1")
    /\ Candidates("r1") = {}
    /\ \E r \in Range(userAnswers) :
          r.user_id = req["r1"].user_id /\ r.exam_type = req["r1"].exam_type
    /\ req["r1"].limit = 1
    /\ resp["r1"].list = <<1>>
    /\ Cardinality(HighQuestions("r1")) = 2

\* priority = difficulty_rank * mandatory_rank (LOW 1, MID 2, HIGH 3;
\* mandatory 2, otherwise 1)
ClaimedPriority(q) ==
    (CASE Question[q].difficulty = "LOW" -> 1
       [] Question[q].difficulty = "MID" -> 2
       [] Question[q].difficulty = "HIGH" -> 3)
    * (IF Question[q].is_mandatory THEN 2 ELSE 1)

\* C15: for a caller with an incorrect answer on record for the exam type,
\* the answer is the first limit entries of a shortlist ordered by priority
\* descending, the shortlist being up to 2 * limit of the incorrectly
\* answered questions with the highest incorrect counts: the ids are
\* distinct, each has an incorrect answer of this caller in this exam type,
\* and none comes from outside the shortlist.
C15_ShortlistThenPriority ==
    \A s \in Slots :
        WeakAnswered(s) /\ Candidates(s) # {} =>
            LET list == resp[s].list IN
            \E S \in SUBSET Candidates(s) :
                /\ Cardinality(S) = Min(2 * req[s].limit, Cardinality(Candidates(s)))
                /\ \A a \in S, b \in Candidates(s) \ S :
                      IncorrectOf(s, a) >= IncorrectOf(s, b)
                /\ Range(list) \subseteq S
                /\ \A i, j \in 1..Len(list) : i # j => list[i] # list[j]
                /\ Len(list) = Min(req[s].limit, Cardinality(S))
                /\ \A i, j \in 1..Len(list) :
                      i < j => ClaimedPriority(list[i]) >= ClaimedPriority(list[j])
                /\ \A q \in S \ Range(list) :
                      \A i \in 1..Len(list) :
                         ClaimedPriority(q) <= ClaimedPriority(list[i])

\* question 1 has the highest priority and fewer incorrect answers than
\* questions 3 and 4: with limit 1 the shortlist is {3, 4} and the answer
\* is question 3
C15_Witness ==
    /\ WeakAnswered("r1")
    /\ req["r1"].limit = 1
    /\ IncorrectOf("r1", 1) = 1
    /\ IncorrectOf("r1", 3) = 2
    /\ IncorrectOf("r1", 4) = 2
    /\ resp["r1"].list = <<3>>

----------------------------------------------------------------------------
(* Properties of the two ranking queries as reads, checked under SpecReads *)

RankingOps == {"get_freq", "get_weak"}

\* the step is a ranking query in slot s
RankingStep(s) == req[s].pc = "idle" /\ req'[s].op \in RankingOps

\* a ranking query changes no table
C16ReadOnly ==
    \A s \in Slots :
        RankingStep(s) =>
            UNCHANGED <<userAnswers, userStats, frequentQuestions, lastAnswerId>>

\* a ranking query beside a submission under way is answered, and leaves
\* the submission and the rows it has flushed as they were
C16Beside ==
    \A s, o \in Slots :
        RankingStep(s) /\ req[o].op = "post_answers" /\ req[o].pc = "items" =>
            /\ resp'[s].status = 200
            /\ req'[o] = req[o]
            /\ sess'[o] = sess[o]

\* a ranking query is answered as the same query was answered before,
\* when no write came between the two
C16Same ==
    \A s, o \in Slots :
        /\ RankingStep(s)
        /\ resp'[s].status = 200
        /\ req[o].pc = "done"
        /\ resp[o].status = 200
        /\ req[o].op = req'[s].op
        /\ req[o].user_id = req'[s].user_id
        /\ req[o].exam_type = req'[s].exam_type
        /\ req[o].limit = req'[s].limit
        => resp'[s].list = resp[o].list

\* C16: get_frequent_questions and get_weak_questions leave every table
\* unchanged, two calls with the same arguments and no write between them
\* return the same list, and a call beside an answer submission under way
\* neither fails nor holds the submission up.
C16_ReadOnlyIdempotent == [][C16ReadOnly /\ C16Beside /\ C16Same]_vars

----------------------------------------------------------------------------
(* Properties of the score, checked under SpecScore *)

\* C17: turning one wrong answer of a batch into a right one, the other
\* answers as they were, never lowers the score _calculate_score gives the
\* batch, whatever the difficulty and the mandatory flag of the questions.
C17_ScoreMonotone ==
    calc.pc = "done" => calc.flipped >= calc.score

\* a batch of three answers to known questions, the turned one to a MID
\* question that is not mandatory, and a higher score for it
C17_Witness ==
    /\ calc.pc = "done"
    /\ Len(calc.answers) = 3
    /\ \A i \in 1..3 : calc.answers[i].question_id \in QuestionIds
    /\ Question[calc.answers[calc.flip].question_id].difficulty = "MID"
    /\ ~Question[calc.answers[calc.flip].question_id].is_mandatory
    /\ calc.flipped > calc.score

----------------------------------------------------------------------------
(* Properties of the snapshot history, checked under SpecHistory, where    *)
(* one request runs at a time and the table of snapshots is in commit      *)
(* order: a row's id is its position                                       *)

\* slot s holds the answer of a successful POST /user-answers
SubmissionAnswered(s) ==
    /\ req[s].pc = "done"
    /\ req[s].op = "post_answers"
    /\ resp[s].status = 201

\* the snapshots of the pair of slot s committed before its own
PriorStats(s) ==
    {r \in Range(userStats) :
        /\ r.user_id = req[s].user_id
        /\ r.exam_type = req[s].exam_type
        /\ r.id # resp[s].new.id}

\* previous_stat is the last committed prior snapshot of the pair
C18Previous(s) ==
    IF PriorStats(s) = {} THEN resp[s].before = NoStat
    ELSE /\ resp[s].before \in PriorStats(s)
         /\ \A r \in PriorStats(s) : r.id <= resp[s].before.id

\* max_stat is a prior snapshot of the pair that no other one outscores
C18Max(s) ==
    IF PriorStats(s) = {} THEN resp[s].max = NoStat
    ELSE /\ resp[s].max \in PriorStats(s)
         /\ \A r \in PriorStats(s) : r.total_score <= resp[s].max.total_score

\* C18: a submission's previous_stat is the snapshot of the submission of
\* the same user and exam type committed last before it, its max_stat a
\* prior snapshot of that pair with the highest total_score; both are
\* absent on the pair's first submission, and neither is the new snapshot
\* or a snapshot of another user or exam type.
C18_PreviousAndMax ==
    \A s \in Slots :
        SubmissionAnswered(s) => C18Previous(s) /\ C18Max(s)

\* the committed rows of a table stay as they are: the table after the
\* step begins with the table before it
Kept(before, after) ==
    /\ Len(before) <= Len(after)
    /\ \A i \in 1..Len(before) : after[i] = before[i]

\* the number of snapshots of user u in exam type e
HistoryLen(stats, u, e) ==
    Cardinality({i \in 1..Len(stats) : stats[i].user_id = u /\ stats[i].exam_type = e})

\* the step commits the submission of slot s
Commits(s) ==
    /\ req[s].op = "post_answers"
    /\ req[s].pc = "items"
    /\ req'[s].pc = "done"
    /\ req'[s].failed \in {"none", "refresh"}

\* rows are only added, and a pair's history grows by the one snapshot of
\* each submission committed for it
C19AppendOnly ==
    /\ Kept(userAnswers, userAnswers')
    /\ Kept(userStats, userStats')
    /\ \A u \in Users, e \in ExamTypes :
          HistoryLen(userStats', u, e) =
             HistoryLen(userStats, u, e)
                + Cardinality({s \in Slots : /\ Commits(s)
                                              /\ req[s].user_id = u
                                              /\ req[s].exam_type = e})

\* GET /user-stats answers with the snapshots of the pair, each once, the
\* later committed before the earlier
C19Listed ==
    \A s \in Slots :
        req[s].pc = "idle" /\ req'[s].op = "get_stats" /\ resp'[s].status = 200 =>
            LET list == resp'[s].list IN
            /\ Len(list) = HistoryLen(userStats, req'[s].user_id, req'[s].exam_type)
            /\ \A i \in 1..Len(list) :
                  /\ list[i] \in Range(userStats)
                  /\ list[i].user_id = req'[s].user_id
                  /\ list[i].exam_type = req'[s].exam_type
            /\ \A i, j \in 1..Len(list) : i < j => list[i].id > list[j].id

\* C19: UserAnswer and UserStat rows are never updated or deleted once
\* committed, the snapshot history of a user and exam type grows by exactly
\* one row with each committed submission, and GET /user-stats returns
\* exactly the snapshots of the pair, newest first.
C19_AppendOnlyHistory == [][C19AppendOnly /\ C19Listed]_vars

----------------------------------------------------------------------------
(* Properties of the ingestion scripts, checked under SpecIngest *)

\* the script of this step ends with a tally that counts every file found
TallyOf(step) ==
    job.step = step =>
        /\ job.pc # "aborted"
        /\ job.pc = "done" =>
              /\ job.reported
              /\ job.success + job.failure = job.files

\* C20: in directory mode the OCR extract step, the embedding step and the
\* embedding import step never stop at a file that fails, and each ends
\* with a reported tally in which success + failure is the number of files
\* found.
C20_DirectoryTally == \A step \in Steps : TallyOf(step)

----------------------------------------------------------------------------
(* Properties of the exit codes, checked under SpecExit *)

\* some file of the run was processed with success
AnySuccess == \E f \in 1..Len(job.results) : job.results[f] = "ok"

\* the exit code of this command is 0 exactly when a file succeeded
ExitOf(step) ==
    (job.step = step /\ job.pc = "exited") => (job.code = 0 <=> AnySuccess)

\* C21: each ingestion command exits with 0 when at least one file
\* succeeded and with 1 when every file failed or the input path or a
\* required key is missing, in batch mode and in single-file mode.
C21_ExitCode == \A step \in {"analyze", "embed", "import"} : ExitOf(step)

----------------------------------------------------------------------------
(* Properties of import_embedding, checked under SpecImporter *)

\* the successful calls for this id, as positions of the log
SuccessesFor(question_id) ==
    {k \in 1..Len(job.log) :
        job.log[k].success /\ job.log[k].question_id = question_id}

\* the ids that occur in the log
LoggedIds == {job.log[k].question_id : k \in 1..Len(job.log)}

\* the rows of the embeddings table for this id
RowsFor(question_id) ==
    {i \in 1..Len(job.embeddings) : job.embeddings[i].question_id = question_id}

\* C22: after any sequence of import_embedding calls the embeddings table
\* holds at most one row per question_id, the one of the latest successful
\* import for that id; an import that fails leaves the stored row in place.
C22_UpsertByQuestionId ==
    \A question_id \in LoggedIds :
       LET wins == SuccessesFor(question_id)
           rows == RowsFor(question_id)
       IN  IF wins = {}
           THEN rows = {}
           ELSE /\ Cardinality(rows) = 1
                /\ \A i \in rows, k \in wins :
                      (\A l \in wins : l <= k) =>
                          job.embeddings[i].file = job.log[k].file

\* two files were imported for one id, then a third import for that id
\* failed: the row is that of the second
C22_Witness ==
    /\ job.step = "importer"
    /\ Len(job.log) = 3
    /\ job.log[1].success /\ job.log[2].success /\ ~job.log[3].success
    /\ job.log[1].question_id = job.log[2].question_id
    /\ job.log[2].question_id = job.log[3].question_id
    /\ job.log[1].file # job.log[2].file
    /\ \E i \in 1..Len(job.embeddings) : job.embeddings[i].file = job.log[2].file

----------------------------------------------------------------------------
(* Properties of the retry loops, checked under SpecRetry *)

\* the calls of the loop that failed
FailedCalls == {k \in 1..Len(job.calls) : job.calls[k] # "ok"}

\* this loop is capped, stops at its first success, and sleeps 1, 2, 4, ...
\* seconds between two calls and never after its last one
RetryOf(loop) ==
    job.step = "retry" /\ job.loop = loop =>
        /\ Len(job.calls) <= job.retry_count
        /\ \A k \in 1..Len(job.calls) : job.calls[k] = "ok" => k = Len(job.calls)
        /\ job.pc = "returned" <=> job.calls # <<>> /\ job.calls[Len(job.calls)] = "ok"
        /\ job.pc = "failed" <=> Cardinality(FailedCalls) = job.retry_count
        /\ Len(job.waits) = IF job.pc = "loop" THEN Len(job.calls)
                            ELSE Len(job.calls) - 1
        /\ \A i \in 1..Len(job.waits) : job.waits[i] = 2 ^ (i - 1)

\* C25: a retry loop makes at most retry_count provider calls, stops at the
\* first successful one, sleeps a delay that doubles per attempt (1s, 2s,
\* ...) between consecutive calls and none after the last, and reports
\* failure after retry_count failed calls.
C25_BackoffAndCap == \A loop \in RetryLoops : RetryOf(loop)

----------------------------------------------------------------------------
(* Properties of the fallback vector, checked under SpecFallback *)

\* a file with text is never reported as failed
C26Succeeds ==
    \A f \in 1..Len(job.texts) : job.texts[f] # "" => job.pc[f] # "False"

\* a fallback vector is the first one of the generator seeded from the text
C26FromText ==
    \A f \in 1..Len(job.texts) :
       job.vector[f] # NoVector =>
          job.vector[f] = [seed |-> Seed(job.texts[f]), drawn |-> 0]

\* C26: process_file on a file with text succeeds also when the provider
\* fails, and the fallback vector it saves depends only on the file's text,
\* also when several files are processed at once by the worker threads.
C26_FallbackFromText == job.step = "fallback" => C26Succeeds /\ C26FromText

----------------------------------------------------------------------------
(* Properties of the Claude batch analysis, checked under SpecClaude *)

\* the files analysed so far whose provider call answered
Answered ==
    {f \in 1..job.next : job.results[f] \in {"ok", "nojson"}}

\* C27: in the Claude batch analysis a file is counted as a success only if
\* its provider call succeeded, and a file whose provider call raised an
\* error is counted as a failure.
C27_FaithfulSummary ==
    job.step = "claude" =>
        /\ job.success = Cardinality(Answered)
        /\ job.failure = job.next - Cardinality(Answered)

----------------------------------------------------------------------------
(* Properties of analyze_image, checked under SpecAnalysis *)

\* the text was extracted and the embedding provider then failed
EmbeddingFailedAfterText ==
    /\ job.step = "analyze_image"
    /\ job.pc = "returned"
    /\ job.text
    /\ job.get_embedding
    /\ ~job.embed

\* in this version the text survives the failure of the embedding provider
KeepsText(version) ==
    EmbeddingFailedAfterText /\ job.version = version =>
        /\ job.result.success
        /\ job.result.text_content
        /\ job.output_dir => job.result.json

\* C28: when the embedding provider fails after a successful text
\* extraction, analyze_image reports success with text_content set and
\* writes <name>_analysis.json when an output directory is given.
C28_TextSurvivesEmbeddingFailure == KeepsText("src") /\ KeepsText("scripts")

----------------------------------------------------------------------------
(* Properties of the question pools, checked under SpecPools *)

\* the ids this ranking returned are of questions of the exam type asked for
PoolOf(op) ==
    \A s \in Slots :
       req[s].pc = "done" /\ req[s].op = op /\ resp[s].status = 200 =>
          \A q \in Range(resp[s].list) :
             q \in QuestionIds /\ Question[q].exam_type = req[s].exam_type

\* C29: every id returned by get_weak_questions or get_frequent_questions
\* for an exam type belongs to a question of that exam type, after any
\* sequence of answer submissions and frequent-question upserts.
C29_PoolsPartitioned == PoolOf("get_weak") /\ PoolOf("get_freq")

----------------------------------------------------------------------------
(* Properties of import_markdown, checked under SpecMarkdown *)

\* the successful imports of this question, as positions of the log
ImportsOf(question_id) ==
    {k \in 1..Len(job.log) :
        job.log[k].success /\ job.log[k].question_id = question_id}

\* the rows of this question
QuestionRows(question_id) ==
    {i \in 1..Len(job.questions) : job.questions[i].id = question_id}

\* C30: after any sequence of imports a question that was imported has
\* exactly one row; its year_list holds the years it was imported for, each
\* once, in ascending order, whatever the order and the number of the
\* imports; its body is that of the latest import.
C30_YearListIsSortedSet ==
    job.step = "markdown" =>
    \A question_id \in MarkdownIds :
       LET imports == ImportsOf(question_id)
           rows == QuestionRows(question_id)
       IN  /\ Cardinality(rows) <= 1
           /\ imports # {} => Cardinality(rows) = 1
           /\ \A i \in rows :
                 LET year_list == job.questions[i].year_list IN
                 /\ \A a, b \in 1..Len(year_list) : a < b => year_list[a] < year_list[b]
                 /\ Range(year_list) = {job.log[k].year : k \in imports}
                 /\ \A k \in imports :
                       (\A l \in imports : l <= k) =>
                          job.questions[i].body = job.log[k].body

\* a question was imported for 2024, for 2023 and again for 2024: its
\* year_list is 2023,2024 and its body that of the third import
C30_Witness ==
    /\ job.step = "markdown"
    /\ Len(job.log) = 3
    /\ \A k \in 1..3 : job.log[k].success /\ job.log[k].question_id = "Q001"
    /\ job.log[1].year = 2024 /\ job.log[2].year = 2023 /\ job.log[3].year = 2024
    /\ job.log[2].body # job.log[3].body
    /\ \E i \in 1..Len(job.questions) :
          /\ job.questions[i].year_list = <<2023, 2024>>
          /\ job.questions[i].body = job.log[3].body

=============================================================================
